---- MODULE Spec2Model ----
(***************************************************************************)
(* Model of dags/elephant_workflow.py: the per-file task group            *)
(* process_single_file (initialize_state followed by seven chained        *)
(* stages), the retry policy the task decorators and default_args give    *)
(* each task, the error handler of each stage, and the poll cycle around  *)
(* the task group: poll_sqs_queue, parse_sqs_messages, the expansion of   *)
(* the task group over the parsed descriptors, and the two requeue        *)
(* operators.                                                              *)
(*                                                                         *)
(* Strings are sequences of tokens: the characters "/", ":" and "+" are   *)
(* tokens of their own, so is a file extension such as ".csv", every      *)
(* other token is a run of ordinary characters.  None is the one-token    *)
(* sequence Null, which no string of the program equals.                  *)
(***************************************************************************)
EXTENDS Integers, Sequences, FiniteSets, TLC

VARIABLES
    config,     \* Airflow Variables: read-only, process-wide
    world,      \* how the collaborators of the stages may misbehave in this cycle:
                \* "any" way, or only by a failing download from the object "store",
                \* in at most MaxFaults attempts; or by failing "downloads" in any
                \* attempt.  In the world "input" no collaborator misbehaves: it is
                \* the parser's input that can be any value
    files,      \* files_to_process: the descriptors the task group is expanded over
    ti,         \* ti[r][t]: state of the task instance of task t in run r
    tries,      \* tries[r][t]: number of attempts of task t started in run r
    xcom,       \* xcom[r]: the WorkflowState returned by the last successful task of run r
    local,      \* local[r]: the WorkflowState held by the last attempt when it ended
    exc,        \* exc[r]: str() of the exception the last attempt raised, Null if none
    lastdoc,    \* lastdoc[r]: the error document the last attempt wrote, NoDoc if none
    written,    \* written[r]: the object-store keys run r has written
    faults,     \* number of stage attempts so far in which a collaborator misbehaved
    queue,      \* the messages waiting in the SQS queue
    dag,        \* state of the task instances outside the task group
    messages,   \* XCom "messages" of poll_sqs_queue
    original_messages,  \* XCom "original_messages" of parse_sqs_messages
    published   \* the messages the requeue operators have sent, in order

\* the variables of the poll cycle around the task group
cycleVars == <<queue, dag, messages, original_messages, published>>

\* the variables of the runs of the task group
runVars == <<files, ti, tries, xcom, local, exc, lastdoc, written, faults>>

vars == <<config, world, files, ti, tries, xcom, local, exc, lastdoc, written, faults,
          queue, dag, messages, original_messages, published>>

----------------------------------------------------------------------------
(* Strings *)

Null == <<"<None>">>

Str(t) == <<t>>

\* Python truthiness of an optional string: `not x`
Falsy(x) == x = Null \/ x = <<>>

\* f"{a}/{b}"
Slash(a, b) == a \o <<"/">> \o b

\* str.replace(old, new) for one-character old
Replace(s, old, new) == [i \in 1..Len(s) |-> IF s[i] = old THEN new ELSE s[i]]

\* state["run_id"].replace(":", "_").replace("+", "_")
RunIdClean(run_id) == Replace(Replace(run_id, ":", "_"), "+", "_")

\* s.split("/")[-1]
SplitLast(s) ==
    LET slashes == {i \in 1..Len(s) : s[i] = "/"}
        last    == IF slashes = {} THEN 0
                   ELSE CHOOSE i \in slashes : \A j \in slashes : j <= i
    IN  SubSeq(s, last + 1, Len(s))

RECURSIVE RStrip(_)
\* s.rstrip("/")
RStrip(s) ==
    IF s # <<>> /\ s[Len(s)] = "/" THEN RStrip(SubSeq(s, 1, Len(s) - 1)) ELSE s

IsPrefix(p, s) == Len(p) <= Len(s) /\ SubSeq(s, 1, Len(p)) = p

----------------------------------------------------------------------------
(* Tasks of the task group and their retry policy *)

\* the chain with hash_files written before transform_county
StagesHashBeforeCounty ==
    << "transform_seed", "prepare_county_via_lambda", "hash_files",
       "transform_county", "upload_hashed_results", "prepare_submission",
       "submit_to_blockchain" >>

\* the chain of process_single_file, in the order it is written
Stages ==
    << "transform_seed", "prepare_county_via_lambda", "transform_county",
       "hash_files", "upload_hashed_results", "prepare_submission",
       "submit_to_blockchain" >>

StageSet == {Stages[i] : i \in 1..Len(Stages)}

Tasks == {"initialize_state"} \cup StageSet

StageIndex(t) == CHOOSE i \in 1..Len(Stages) : Stages[i] = t

\* the task whose return value is the argument of task t
Upstream(t) ==
    IF StageIndex(t) = 1 THEN "initialize_state" ELSE Stages[StageIndex(t) - 1]

Later(t) == {Stages[i] : i \in (StageIndex(t) + 1)..Len(Stages)}

\* default_args["retries"]
DefaultRetries == 1

\* hash_files without its retries=0: it takes default_args like the transforms
RetriesHashDefault(t) ==
    CASE t = "prepare_county_via_lambda" -> 2
      [] t = "upload_hashed_results"     -> 2
      [] t = "prepare_submission"        -> 2
      [] t = "submit_to_blockchain"      -> 2
      [] t = "parse_sqs_messages"        -> 2
      [] OTHER                           -> DefaultRetries

\* retries= of each @task decorator; a task without one takes default_args
Retries(t) ==
    CASE t = "hash_files"                -> 0
      [] t = "prepare_county_via_lambda" -> 2
      [] t = "upload_hashed_results"     -> 2
      [] t = "prepare_submission"        -> 2
      [] t = "submit_to_blockchain"      -> 2
      [] t = "parse_sqs_messages"        -> 2
      [] OTHER                           -> DefaultRetries

----------------------------------------------------------------------------
(* WorkflowState and the descriptors *)

StateFields ==
    { "input_csv_uri", "output_base_uri", "run_id", "seed_output_uri",
      "county_output_uri", "combined_output_uri", "seed_hash_zip_uri",
      "county_hash_zip_uri", "hash_results_uri", "hash_csv_uri",
      "submission_csv_uri", "property_cid", "submission_result", "error",
      "error_step", "county_prepared_input_uri", "original_message_body",
      "message_id", "queue_name" }

\* the value of xcom and local before any task of the run has returned
NoState == [f \in StateFields |-> Null]

\* the WorkflowState(...) constructed by initialize_state
WorkflowState(file_data, output_base_uri, run_id) ==
    [NoState EXCEPT !.input_csv_uri = file_data.input_csv_uri,
                    !.output_base_uri = RStrip(output_base_uri),
                    !.run_id = run_id,
                    !.message_id = file_data.message_id]

\* the FileProcessingInfo(...) built by parse_sqs_messages for one record
FileProcessingInfo(bucket_name, object_key, message_id, receipt_handle) ==
    [ input_csv_uri  |-> <<"s3", ":", "/", "/">> \o bucket_name \o <<"/">> \o object_key,
      receipt_handle |-> receipt_handle,
      message_id     |-> message_id,
      bucket_name    |-> bucket_name,
      object_key     |-> object_key ]

\* the fields each stage assigns when it succeeds
OwnedFields(t) ==
    CASE t = "transform_seed"            -> {"seed_output_uri"}
      [] t = "prepare_county_via_lambda" -> {"county_prepared_input_uri"}
      [] t = "transform_county"          -> {"county_output_uri", "combined_output_uri"}
      [] t = "hash_files"                -> {"hash_results_uri", "hash_csv_uri", "property_cid",
                                             "seed_hash_zip_uri", "county_hash_zip_uri"}
      [] t = "upload_hashed_results"     -> {}
      [] t = "prepare_submission"        -> {"submission_csv_uri"}
      [] t = "submit_to_blockchain"      -> {"submission_result"}

\* the checks each stage makes of its input state before it does its work
HasRequired(t, s) ==
    CASE t = "transform_seed"            -> ~Falsy(s.input_csv_uri)
      [] t = "prepare_county_via_lambda" -> ~Falsy(s.seed_output_uri)
      [] t = "transform_county"          -> ~Falsy(s.county_prepared_input_uri)
      [] t = "hash_files"                -> ~Falsy(s.seed_output_uri) /\ ~Falsy(s.county_output_uri)
      [] t = "upload_hashed_results"     -> ~Falsy(s.seed_hash_zip_uri) /\ ~Falsy(s.county_hash_zip_uri)
      [] t = "prepare_submission"        -> ~Falsy(s.hash_csv_uri) \/ ~Falsy(s.hash_results_uri)
      [] t = "submit_to_blockchain"      -> ~Falsy(s.submission_csv_uri)

----------------------------------------------------------------------------
(* Output locations *)

\* input_object_key = state["input_csv_uri"].split("/")[-1]
InputObjectKey(s) == SplitLast(s.input_csv_uri)

\* f"{state['output_base_uri']}/{run_id_clean}/{input_object_key}"
CommonOutputUri(s) ==
    Slash(Slash(s.output_base_uri, RunIdClean(s.run_id)), InputObjectKey(s))

\* f"{common_output_uri}/<name>": the location of an artifact of the run
ArtifactUri(s, name) == Slash(CommonOutputUri(s), Str(name))

\* f"{state['output_base_uri']}/{state['run_id']}/{input_object_key}/errors/<name>"
ErrorUri(s, name) ==
    Slash(Slash(Slash(Slash(s.output_base_uri, s.run_id), InputObjectKey(s)),
                Str("errors")), Str(name))

\* state["error_step"] and error_log["step"] as each stage's handler writes them
ErrorStep(t) ==
    CASE t = "transform_seed"            -> "transform_seed"
      [] t = "prepare_county_via_lambda" -> "prepare_county_via_lambda"
      [] t = "transform_county"          -> "transform_county"
      [] t = "hash_files"                -> "hash"
      [] t = "upload_hashed_results"     -> "upload_hashed_results"
      [] t = "prepare_submission"        -> "upload"
      [] t = "submit_to_blockchain"      -> "submit"

\* the file name of the error document in each stage's handler
ErrorDocName(t) ==
    CASE t = "transform_seed"            -> "transform_seed_error.json"
      [] t = "transform_county"          -> "transform_county_error.json"
      [] t = "hash_files"                -> "hash_error.json"
      [] t = "upload_hashed_results"     -> "upload_hashed_results_error.json"
      [] t = "prepare_submission"        -> "upload_error.json"
      [] t = "submit_to_blockchain"      -> "submit_error.json"

\* whether the stage's handler uploads an error document before re-raising
WritesErrorDoc(t) == t # "prepare_county_via_lambda"

NoDoc == [path |-> Null, error |-> Null, step |-> Null]

----------------------------------------------------------------------------
(* Configuration: the Airflow Variables the tasks read.  A Variable that is *)
(* not defined is Null, one defined as the empty string is <<>>.            *)

SubmitVariables == {"domain", "api_key", "oracle_key_id", "from_address", "rpc_url"}

ConfigFields ==
    {"output_base_uri", "downloader_function_arn", "downloader_ssm_param_name",
     "scripts_s3_uri", "pinata_jwt"} \cup SubmitVariables

\* Variable.get("elephant_output_base_uri", default_var="s3://elephant-outputs")
DefaultOutputBase == <<"s3", ":", "/", "/", "elephant-outputs">>

FullConfig ==
    [f \in ConfigFields |->
        CASE f = "output_base_uri"           -> DefaultOutputBase
          [] f = "downloader_ssm_param_name" -> Null
          [] OTHER                           -> Str(f)]

\* the deployments considered: the full configuration, and each configuration
\* that differs from it in one Variable
Configs ==
    {FullConfig}
    \cup {[FullConfig EXCEPT !.output_base_uri = @ \o <<"/">>]}
    \cup {[FullConfig EXCEPT !.downloader_function_arn = Null]}
    \cup {[FullConfig EXCEPT !.downloader_function_arn = Null,
                             !.downloader_ssm_param_name = Str("param")]}
    \cup {[FullConfig EXCEPT ![f] = v] : f \in {"scripts_s3_uri", "pinata_jwt"}, v \in {Null, <<>>}}
    \cup {[FullConfig EXCEPT ![f] = Null] : f \in SubmitVariables}

\* Variable.get(name) without default_var raises KeyError for an undefined Variable
KeyErrorMsg(f) == <<"KeyError", ":", f>>

----------------------------------------------------------------------------
(* The environment of one attempt: what the collaborators do *)

\* one invocation of the external tool: exit status, and the files found in
\* cwd when it has exited
ToolResults ==
    [rc : {0, 1}, errfile : {"absent", "empty", "rows"}, clilog : BOOLEAN, timedout : {FALSE}]
    \cup {[rc |-> 1, errfile |-> "absent", clilog |-> FALSE, timedout |-> TRUE]}

OK == Str("ok")

MsgValidation   == Str("Validation failed: submit_errors.csv contains errors")
MsgCliLog       == Str("elephant-cli failed: elephant-cli.log contains errors")
MsgCommand      == Str("Command failed")
MsgTimeout      == Str("TimeoutExpired")
MsgDownload     == Str("Failed to download")
MsgUpload       == Str("Failed to upload")
MsgNoFile       == Str("FileNotFoundError")
MsgSeedInvalid  == Str("Seed validation failed: submit_errors.csv contains errors")
MsgCountyInvalid == Str("County validation failed: submit_errors.csv contains errors")
MsgNoArn        == Str("Lambda ARN not configured")
MsgClientError  == Str("ClientError")
MsgNoSeedOutput == Str("Missing seed_output_uri in state")
MsgLambdaFailed == Str("Lambda invocation failed")
MsgBadJson      == Str("JSONDecodeError")
MsgNoPrepared   == Str("Missing county_prepared_input_uri in state")
MsgNoScripts    == Str("Missing scripts S3 URI from Airflow Variable 'elephant_scripts_s3_uri'")
MsgNoOutputs    == Str("Missing seed or county output URIs from previous task")
MsgNoCid        == Str("Could not find propertyCid in hash results")
MsgNoPinata     == Str("Airflow Variable 'elephant_pinata_jwt' is missing or empty")
MsgNoHashZips   == Str("Missing seed or county hash zip URIs from previous task")
MsgNoHashResults == Str("Missing hash results URI from previous task")
MsgNoHashCsvs   == Str("No hash result CSVs found")
MsgNoSubmission == Str("Missing submission CSV URI from previous task")

\* run_command: OK when it returns, else str() of the exception it raises
run_command(t) ==
    IF t.timedout THEN MsgTimeout
    ELSE IF t.rc # 0
         THEN IF t.errfile = "rows" THEN MsgValidation
              ELSE IF t.clilog THEN MsgCliLog
              ELSE MsgCommand
    ELSE OK

\* a stage that stores the sanitized run id back into the state it returns
ReturnSanitizedRunId(s, writes) ==
    [ok |-> TRUE, state |-> [s EXCEPT !.run_id = RunIdClean(@)], msg |-> <<"ok">>,
     writes |-> writes]

\* what a stage body ends with: `return state`, or an exception
Return(s, writes) == [ok |-> TRUE, state |-> s, msg |-> OK, writes |-> writes]
Raise(s, msg, writes) == [ok |-> FALSE, state |-> s, msg |-> msg, writes |-> writes]

----------------------------------------------------------------------------
(* The try-block of each stage *)

\* transform_seed: download, transform, validate, check the error report, upload
TransformSeedBody(s, dl, t1, t2, up) ==
    LET seed_s3_uri == ArtifactUri(s, "seed_seed_output.zip")
    IN  IF ~dl THEN Raise(s, MsgDownload, {})
        ELSE IF run_command(t1) # OK THEN Raise(s, run_command(t1), {})
        ELSE IF run_command(t2) # OK THEN Raise(s, run_command(t2), {})
        ELSE IF t2.errfile = "rows" THEN Raise(s, MsgSeedInvalid, {})
        ELSE IF ~up THEN Raise(s, MsgUpload, {})
        ELSE Return([s EXCEPT !.seed_output_uri = seed_s3_uri], {seed_s3_uri})

\* the responses of client.invoke
LambdaPayloads ==
    { "none", "invalid_json", "list", "empty_dict", "direct", "direct_null",
      "body_str", "body_str_bad", "body_obj", "body_obj_nouri", "body_list" }

LambdaResponses ==
    [raises : BOOLEAN, status : {0, 200, 500}, function_error : BOOLEAN,
     payload : LambdaPayloads]

\* the location the collaborator names in its response
LambdaUri == <<"s3", ":", "/", "/", "county-prep", "/", "prepared.zip">>

\* output_uri after the response has been parsed, before the fallback
ParsedOutputUri(payload) ==
    IF payload \in {"direct", "body_str", "body_obj"} THEN LambdaUri ELSE Null

\* prepare_county_via_lambda: resolve the function, build and upload the input,
\* invoke, parse the response
PrepareCountyBody(s, cfg, ssm, prep, resp) ==
    LET use_ssm == Falsy(cfg.downloader_function_arn)
                   /\ ~Falsy(cfg.downloader_ssm_param_name)
        lambda_arn == IF use_ssm
                      THEN (IF ssm = "value" THEN Str("arn-from-ssm") ELSE <<>>)
                      ELSE cfg.downloader_function_arn
        output_prefix == ArtifactUri(s, "county_prep")
        input_s3_uri == Slash(output_prefix, Str("input.zip"))
        parsed == ParsedOutputUri(resp.payload)
        output_uri == IF Falsy(parsed) THEN Slash(output_prefix, Str("output.zip")) ELSE parsed
    IN  IF use_ssm /\ ssm = "error" THEN Raise(s, MsgClientError, {})
        ELSE IF Falsy(lambda_arn) THEN Raise(s, MsgNoArn, {})
        ELSE IF Falsy(s.seed_output_uri) THEN Raise(s, MsgNoSeedOutput, {})
        ELSE IF prep = "download" THEN Raise(s, MsgDownload, {})
        ELSE IF prep = "extract" THEN Raise(s, MsgNoFile, {})
        ELSE IF prep = "upload" THEN Raise(s, MsgUpload, {})
        ELSE IF resp.raises THEN Raise(s, MsgClientError, {input_s3_uri})
        ELSE IF resp.status < 200 \/ resp.status >= 300 \/ resp.function_error
             THEN Raise(s, MsgLambdaFailed, {input_s3_uri})
        ELSE IF resp.payload = "invalid_json" THEN Raise(s, MsgBadJson, {input_s3_uri})
        ELSE Return([s EXCEPT !.county_prepared_input_uri = output_uri], {input_s3_uri})

\* transform_county: download the prepared input and the scripts, transform,
\* upload the tool's log, validate, check the error report, upload
TransformCountyBody(s, cfg, dl1, dl2, t1, uplog, t2, up) ==
    LET cli_log_s3_uri == ArtifactUri(s, "elephant-cli-transform-county.log")
        county_s3_uri == ArtifactUri(s, "county_output.zip")
    IN  IF Falsy(s.county_prepared_input_uri) THEN Raise(s, MsgNoPrepared, {})
        ELSE IF ~dl1 THEN Raise(s, MsgDownload, {})
        ELSE IF cfg.scripts_s3_uri = Null THEN Raise(s, KeyErrorMsg("elephant_scripts_s3_uri"), {})
        ELSE IF Falsy(cfg.scripts_s3_uri) THEN Raise(s, MsgNoScripts, {})
        ELSE IF ~dl2 THEN Raise(s, MsgDownload, {})
        ELSE IF run_command(t1) # OK THEN Raise(s, run_command(t1), {})
        ELSE IF ~t1.clilog THEN Raise(s, MsgNoFile, {})
        ELSE IF ~uplog THEN Raise(s, MsgUpload, {})
        ELSE IF run_command(t2) # OK THEN Raise(s, run_command(t2), {cli_log_s3_uri})
        ELSE IF t2.errfile = "rows" THEN Raise(s, MsgCountyInvalid, {cli_log_s3_uri})
        ELSE IF ~up THEN Raise(s, MsgUpload, {cli_log_s3_uri})
        ELSE Return([s EXCEPT !.county_output_uri = county_s3_uri,
                              !.combined_output_uri = Null],
                    {cli_log_s3_uri, county_s3_uri})

\* what the seed hash manifest holds, and what the seed hash archive holds
SeedCsvKinds == {"absent", "no_rows", "no_column", "empty_value", "cid"}
SeedZipKinds == {"bad_zip", "no_dir", "cid_dir"}

CsvCid == Str("bafkrei-from-manifest")
DirCid == Str("bafkrei-from-archive")

\* property_cid after the loop over the rows of seed_hash.csv
CidFromCsv(csv) == IF csv = "cid" THEN CsvCid ELSE IF csv = "empty_value" THEN <<>> ELSE Null

\* property_cid after the loop over the directories of the extracted archive
CidFromZip(zip) == IF zip = "cid_dir" THEN DirCid ELSE Null

\* str() of the exception upload_to_s3 raises for the object s3_uri
UploadError(s3_uri) == MsgUpload \o s3_uri

\* ThreadPoolExecutor(max_workers=...) of the stages that transfer in parallel
MaxWorkers(t) ==
    CASE t = "hash_files"            -> 4
      [] t = "upload_hashed_results" -> 2

\* the exception of the transfer submitted last among those that failed
LastFailed(failed) ==
    IF failed = {} THEN 0 ELSE CHOOSE i \in failed : \A j \in failed : j <= i

\* the futures of a ThreadPoolExecutor block: every transfer runs, f.result()
\* re-raises in submission order; 0 when none failed
FirstFailed(failed) ==
    IF failed = {} THEN 0 ELSE CHOOSE i \in failed : \A j \in failed : i <= j

\* hash_files without the assignment of hash_csv_uri
HashFilesBodyNoCsvUri(s, dl, t1, csv, zip, t2, county_csv, failed) ==
    LET from_csv == CidFromCsv(csv)
        property_cid == IF Falsy(from_csv) THEN CidFromZip(zip) ELSE from_csv
        combined_rows == csv \in {"no_column", "empty_value", "cid"} \/ county_csv
        uris == << ArtifactUri(s, "combined_hash.zip"), ArtifactUri(s, "combined_hash.csv"),
                   ArtifactUri(s, "seed_hash.zip"), ArtifactUri(s, "county_hash.zip") >>
        bad == failed \cup (IF combined_rows THEN {} ELSE {2})
        done == {uris[i] : i \in (1..4) \ bad}
    IN  IF Falsy(s.seed_output_uri) \/ Falsy(s.county_output_uri) THEN Raise(s, MsgNoOutputs, {})
        ELSE IF ~dl THEN Raise(s, MsgDownload, {})
        ELSE IF run_command(t1) # OK THEN Raise(s, run_command(t1), {})
        ELSE IF Falsy(from_csv) /\ zip = "bad_zip" THEN Raise(s, MsgNoFile, {})
        ELSE IF Falsy(property_cid) THEN Raise(s, MsgNoCid, {})
        ELSE IF run_command(t2) # OK THEN Raise(s, run_command(t2), {})
        ELSE IF bad # {}
             THEN Raise(s, IF FirstFailed(bad) \in failed
                           THEN UploadError(uris[FirstFailed(bad)]) ELSE MsgNoFile, done)
        ELSE Return([s EXCEPT !.hash_results_uri = uris[1],
                              !.property_cid = property_cid,
                              !.seed_hash_zip_uri = uris[3],
                              !.county_hash_zip_uri = uris[4]],
                    done)

\* hash_files assigning the locations of the combined artifacts before it
\* waits for the uploads
HashFilesBodyAssignFirst(s, dl, t1, csv, zip, t2, county_csv, failed) ==
    LET from_csv == CidFromCsv(csv)
        property_cid == IF Falsy(from_csv) THEN CidFromZip(zip) ELSE from_csv
        combined_rows == csv \in {"no_column", "empty_value", "cid"} \/ county_csv
        uris == << ArtifactUri(s, "combined_hash.zip"), ArtifactUri(s, "combined_hash.csv"),
                   ArtifactUri(s, "seed_hash.zip"), ArtifactUri(s, "county_hash.zip") >>
        bad == failed \cup (IF combined_rows THEN {} ELSE {2})
        done == {uris[i] : i \in (1..4) \ bad}
    IN  IF Falsy(s.seed_output_uri) \/ Falsy(s.county_output_uri) THEN Raise(s, MsgNoOutputs, {})
        ELSE IF ~dl THEN Raise(s, MsgDownload, {})
        ELSE IF run_command(t1) # OK THEN Raise(s, run_command(t1), {})
        ELSE IF Falsy(from_csv) /\ zip = "bad_zip" THEN Raise(s, MsgNoFile, {})
        ELSE IF Falsy(property_cid) THEN Raise(s, MsgNoCid, {})
        ELSE IF run_command(t2) # OK THEN Raise(s, run_command(t2), {})
        ELSE IF bad # {}
             THEN Raise([s EXCEPT !.hash_results_uri = uris[1],
                                  !.hash_csv_uri = uris[2]],
                        IF FirstFailed(bad) \in failed
                           THEN UploadError(uris[FirstFailed(bad)]) ELSE MsgNoFile, done)
        ELSE Return([s EXCEPT !.hash_results_uri = uris[1],
                              !.hash_csv_uri = uris[2],
                              !.property_cid = property_cid,
                              !.seed_hash_zip_uri = uris[3],
                              !.county_hash_zip_uri = uris[4]],
                    done)

\* hash_files: download both outputs, hash the seed, find the identifier, hash
\* the county, combine, upload four artifacts
HashFilesBody(s, dl, t1, csv, zip, t2, county_csv, failed) ==
    LET from_csv == CidFromCsv(csv)
        property_cid == IF Falsy(from_csv) THEN CidFromZip(zip) ELSE from_csv
        combined_rows == csv \in {"no_column", "empty_value", "cid"} \/ county_csv
        uris == << ArtifactUri(s, "combined_hash.zip"), ArtifactUri(s, "combined_hash.csv"),
                   ArtifactUri(s, "seed_hash.zip"), ArtifactUri(s, "county_hash.zip") >>
        bad == failed \cup (IF combined_rows THEN {} ELSE {2})
        done == {uris[i] : i \in (1..4) \ bad}
    IN  IF Falsy(s.seed_output_uri) \/ Falsy(s.county_output_uri) THEN Raise(s, MsgNoOutputs, {})
        ELSE IF ~dl THEN Raise(s, MsgDownload, {})
        ELSE IF run_command(t1) # OK THEN Raise(s, run_command(t1), {})
        ELSE IF Falsy(from_csv) /\ zip = "bad_zip" THEN Raise(s, MsgNoFile, {})
        ELSE IF Falsy(property_cid) THEN Raise(s, MsgNoCid, {})
        ELSE IF run_command(t2) # OK THEN Raise(s, run_command(t2), {})
        ELSE IF bad # {}
             THEN Raise(s, IF FirstFailed(bad) \in failed
                           THEN UploadError(uris[FirstFailed(bad)]) ELSE MsgNoFile, done)
        ELSE Return([s EXCEPT !.hash_results_uri = uris[1],
                              !.hash_csv_uri = uris[2],
                              !.property_cid = property_cid,
                              !.seed_hash_zip_uri = uris[3],
                              !.county_hash_zip_uri = uris[4]],
                    done)

\* upload_hashed_results: read the credential, download both hash archives,
\* publish each, upload two logs
UploadHashedBody(s, cfg, dl, t1, t2, failed) ==
    LET uris == << ArtifactUri(s, "seed_upload_log.json"),
                   ArtifactUri(s, "county_upload_log.json") >>
        done == {uris[i] : i \in (1..2) \ failed}
    IN  IF cfg.pinata_jwt = Null THEN Raise(s, KeyErrorMsg("elephant_pinata_jwt"), {})
        ELSE IF Falsy(cfg.pinata_jwt) THEN Raise(s, MsgNoPinata, {})
        ELSE IF Falsy(s.seed_hash_zip_uri) \/ Falsy(s.county_hash_zip_uri)
             THEN Raise(s, MsgNoHashZips, {})
        ELSE IF ~dl THEN Raise(s, MsgDownload, {})
        ELSE IF run_command(t1) # OK THEN Raise(s, run_command(t1), {})
        ELSE IF run_command(t2) # OK THEN Raise(s, run_command(t2), {})
        ELSE IF failed # {} THEN Raise(s, UploadError(uris[FirstFailed(failed)]), done)
        ELSE Return(s, done)

\* the table downloaded from hash_csv_uri
CombinedManifest ==
    [header |-> "propertyCid,dataGroupCid,dataCid,filePath",
     rows |-> <<Str("seed row"), Str("county row")>>]

\* every file is read, whatever its name
IsManifestAny(name) == TRUE

\* "hash" in csv_file.name.lower() or "result" in csv_file.name.lower()
IsManifest(name) == \E i \in DOMAIN name : name[i] \in {"hash", "result"}

RECURSIVE ReadRows(_)
\* combined_rows after the loop over csv_files: the rows of the files read,
\* each a dict with the keys of its file's header
ReadRows(csv_files) ==
    IF csv_files = <<>> THEN <<>>
    ELSE LET csv_file == Head(csv_files)
         IN  (IF IsManifest(csv_file.name)
              THEN [i \in DOMAIN csv_file.rows |->
                       [header |-> csv_file.header, row |-> csv_file.rows[i]]]
              ELSE <<>>)
             \o ReadRows(Tail(csv_files))

\* str() of the ValueError of csv.DictWriter for a row with a key that is not
\* among fieldnames
MsgExtraFields == Str("dict contains fields not in fieldnames")

\* upload_results.csv as prepare_submission has it before the upload: the
\* combined manifest when the state has hash_csv_uri, else the rows of the CSV
\* files of the combined archive written under the header of the first file
\* read
SubmissionTable(s, dl, csv_files) ==
    LET read == SelectSeq(csv_files, LAMBDA f : IsManifest(f.name))
        combined_rows == ReadRows(csv_files)
        raise(msg) == [raised |-> TRUE, msg |-> msg, table |-> CombinedManifest]
    IN  IF ~Falsy(s.hash_csv_uri)
        THEN IF ~dl THEN raise(MsgDownload)
             ELSE [raised |-> FALSE, msg |-> OK, table |-> CombinedManifest]
        ELSE IF Falsy(s.hash_results_uri) THEN raise(MsgNoHashResults)
        ELSE IF ~dl THEN raise(MsgDownload)
        ELSE IF combined_rows = <<>> THEN raise(MsgNoHashCsvs)
        ELSE IF \E i \in DOMAIN combined_rows : combined_rows[i].header # read[1].header
             THEN raise(MsgExtraFields)
        ELSE [raised |-> FALSE, msg |-> OK,
              table |-> [header |-> read[1].header,
                         rows |-> [i \in DOMAIN combined_rows |-> combined_rows[i].row]]]

\* prepare_submission: take the combined manifest, or rebuild it from the
\* combined archive, and upload it
PrepareSubmissionBody(s, dl, csv_files, up) ==
    LET submission_csv_s3_uri == ArtifactUri(s, "submission_ready.csv")
        table == SubmissionTable(s, dl, csv_files)
    IN  IF table.raised THEN Raise(s, table.msg, {})
        ELSE IF ~up THEN Raise(s, MsgUpload, {})
        ELSE Return([s EXCEPT !.submission_csv_uri = submission_csv_s3_uri],
                    {submission_csv_s3_uri})

\* the Variables read when rpc_url is not among them
SubmitVariableOrderNoRpcUrl == <<"domain", "api_key", "oracle_key_id", "from_address", "domain">>

\* the Variables submit_to_blockchain reads, in the order it reads them
SubmitVariableOrder == <<"domain", "api_key", "oracle_key_id", "from_address", "rpc_url">>

\* submit_to_blockchain: read five Variables, download the table, submit, read
\* the tool's three output files, upload the log
SubmitBody(s, cfg, dl, t, outfiles, up) ==
    LET undefined == {i \in 1..5 : cfg[SubmitVariableOrder[i]] = Null}
        submission_log_s3_uri == ArtifactUri(s, "submission_log.json")
    IN  IF undefined # {}
        THEN Raise(s, KeyErrorMsg(SubmitVariableOrder[FirstFailed(undefined)]), {})
        ELSE IF Falsy(s.submission_csv_uri) THEN Raise(s, MsgNoSubmission, {})
        ELSE IF ~dl THEN Raise(s, MsgDownload, {})
        ELSE IF run_command(t) # OK THEN Raise(s, run_command(t), {})
        ELSE IF ~outfiles THEN Raise(s, MsgNoFile, {})
        ELSE IF ~up THEN Raise(s, MsgUpload, {})
        ELSE Return([s EXCEPT !.submission_result = Str("success")],
                    {submission_log_s3_uri})

----------------------------------------------------------------------------
(* The except-block of each stage, and what the scheduler does with an attempt *)

NoExc == [msg |-> Null, raised_in |-> "none"]

\* str() of the exception upload_to_s3 raises for error.json
MsgErrorDocUpload == Str("Failed to upload error.json")

\* a handler that records the message but not the stage
FailedStateNoStep(s, msg, step) == [s EXCEPT !.error = msg]

\* state["error"] = str(e); state["error_step"] = <the stage's literal>
FailedState(s, msg, step) == [s EXCEPT !.error = msg, !.error_step = Str(step)]

\* the except-block: set the error fields, write error.json, upload it, raise.
\* ew tells whether the upload of error.json succeeds.
Handler(t, s, msg, ew) ==
    LET failed == FailedState(s, msg, ErrorStep(t))
    IN  IF ~WritesErrorDoc(t)
        THEN [state |-> failed, exc |-> [msg |-> msg, raised_in |-> "try"],
              doc |-> NoDoc, writes |-> {}]
        ELSE IF ew
        THEN [state |-> failed, exc |-> [msg |-> msg, raised_in |-> "try"],
              doc |-> [path  |-> ErrorUri(s, ErrorDocName(t)),
                       error |-> msg,
                       step  |-> Str(ErrorStep(t))],
              writes |-> {ErrorUri(s, ErrorDocName(t))}]
        ELSE [state |-> failed, exc |-> [msg |-> MsgErrorDocUpload, raised_in |-> "except"],
              doc |-> NoDoc, writes |-> {}]

\* the instances of the task group: one per element it was expanded over
Runs == DOMAIN ti

\* trigger rule all_done: the upstream task has finished, however it ended
TriggerRuleAllDone(r, t) == ti[r][Upstream(t)] \in {"success", "failed"}

\* all_success over the task instances of every run, as for mapped tasks
\* outside a mapped task group
TriggerRuleAllRuns(r, t) == \A q \in Runs : ti[q][Upstream(t)] = "success"

\* the trigger rule of the tasks of the chain (all_success, the default): the
\* upstream task has succeeded
TriggerRuleMet(r, t) == ti[r][Upstream(t)] = "success"

\* a task instance the scheduler may start: never run, or waiting for its retry
Runnable(r, t) ==
    /\ ti[r][t] \in {"none", "up_for_retry"}
    /\ TriggerRuleMet(r, t)

\* after the n-th attempt has raised: up_for_retry while retries remain
StateAfterFailure(t, n) == IF n <= Retries(t) THEN "up_for_retry" ELSE "failed"

\* the failures that the configuration decides, whatever the collaborators do
ConfigErrorMsgs ==
    {MsgNoArn, MsgNoScripts, MsgNoPinata, KeyErrorMsg("elephant_scripts_s3_uri"),
     KeyErrorMsg("elephant_pinata_jwt")}
    \cup {KeyErrorMsg(f) : f \in SubmitVariables}

\* at most MaxFaults stage attempts of a poll cycle meet a misbehaving collaborator
\* (a failed transfer, a failing tool, a failing function, bad data)
MaxFaults == 2

IsFault(res) == ~res.ok /\ res.msg \notin ConfigErrorMsgs

\* an attempt whose failing state is what the next attempt receives, as if the
\* attempts of a run shared one WorkflowState object
AttemptSharedState(r, t, res, ew) ==
    LET n == tries[r][t] + 1
        h == Handler(t, res.state, res.msg, ew)
    IN  /\ IsFault(res) => (world = "downloads" \/ faults < MaxFaults)
        /\ faults' = IF IsFault(res) THEN faults + 1 ELSE faults
        /\ tries' = [tries EXCEPT ![r][t] = n]
        /\ IF res.ok
           THEN /\ ti' = [ti EXCEPT ![r][t] = "success"]
                /\ xcom' = [xcom EXCEPT ![r] = res.state]
                /\ local' = [local EXCEPT ![r] = res.state]
                /\ exc' = [exc EXCEPT ![r] = NoExc]
                /\ lastdoc' = [lastdoc EXCEPT ![r] = NoDoc]
                /\ written' = [written EXCEPT ![r] = @ \cup res.writes]
           ELSE /\ ti' = [ti EXCEPT ![r][t] = StateAfterFailure(t, n)]
                /\ xcom' = [xcom EXCEPT ![r] = h.state]
                /\ local' = [local EXCEPT ![r] = h.state]
                /\ exc' = [exc EXCEPT ![r] = h.exc]
                /\ lastdoc' = [lastdoc EXCEPT ![r] = h.doc]
                /\ written' = [written EXCEPT ![r] = @ \cup res.writes \cup h.writes]
        /\ UNCHANGED <<config, world, files>>
        /\ UNCHANGED cycleVars

\* one attempt of stage t in run r with the result res of its try-block
Attempt(r, t, res, ew) ==
    LET n == tries[r][t] + 1
        h == Handler(t, res.state, res.msg, ew)
    IN  /\ IsFault(res) => (world = "downloads" \/ faults < MaxFaults)
        /\ faults' = IF IsFault(res) THEN faults + 1 ELSE faults
        /\ tries' = [tries EXCEPT ![r][t] = n]
        /\ IF res.ok
           THEN /\ ti' = [ti EXCEPT ![r][t] = "success"]
                /\ xcom' = [xcom EXCEPT ![r] = res.state]
                /\ local' = [local EXCEPT ![r] = res.state]
                /\ exc' = [exc EXCEPT ![r] = NoExc]
                /\ lastdoc' = [lastdoc EXCEPT ![r] = NoDoc]
                /\ written' = [written EXCEPT ![r] = @ \cup res.writes]
           ELSE /\ ti' = [ti EXCEPT ![r][t] = StateAfterFailure(t, n)]
                /\ xcom' = xcom
                /\ local' = [local EXCEPT ![r] = h.state]
                /\ exc' = [exc EXCEPT ![r] = h.exc]
                /\ lastdoc' = [lastdoc EXCEPT ![r] = h.doc]
                /\ written' = [written EXCEPT ![r] = @ \cup res.writes \cup h.writes]
        /\ UNCHANGED <<config, world, files>>
        /\ UNCHANGED cycleVars

\* whether the upload of error.json succeeds: asked only of an attempt that
\* raised in a stage whose handler uploads one
ErrorDocUploads(t, res) == IF ~res.ok /\ WritesErrorDoc(t) THEN BOOLEAN ELSE {TRUE}

----------------------------------------------------------------------------
(* The environments of an attempt.  A choice the attempt never asks for is *)
(* fixed to the first value, so that each course of an attempt is listed   *)
(* once.                                                                    *)

\* the tool exits 0 and leaves its log and no error report
T0 == [rc |-> 0, errfile |-> "absent", clilog |-> TRUE, timedout |-> FALSE]

Ran(t) == run_command(t) = OK

TransformSeedEnvs ==
    {x : x \in
    {e \in [dl : BOOLEAN, t1 : ToolResults, t2 : ToolResults, up : BOOLEAN] :
        /\ ~e.dl => e.t1 = T0
        /\ ~(e.dl /\ Ran(e.t1)) => e.t2 = T0
        /\ ~(e.dl /\ Ran(e.t1) /\ Ran(e.t2) /\ e.t2.errfile # "rows") => e.up}}

PrepareCountyEnvs ==
    {x : x \in
    {e \in [ssm : {"value", "empty", "error"}, prep : {"ok", "download", "extract", "upload"},
            resp : LambdaResponses] :
        /\ e.prep # "ok" => e.resp = [raises |-> FALSE, status |-> 200,
                                      function_error |-> FALSE, payload |-> "direct"]
        /\ e.resp.raises => e.resp.status = 200 /\ ~e.resp.function_error
        /\ (e.resp.raises \/ e.resp.status # 200 \/ e.resp.function_error)
              => e.resp.payload = "direct"}}

TransformCountyEnvs ==
    {x : x \in
    {e \in [dl1 : BOOLEAN, dl2 : BOOLEAN, t1 : ToolResults, uplog : BOOLEAN,
            t2 : ToolResults, up : BOOLEAN] :
        /\ ~e.dl1 => e.dl2
        /\ ~(e.dl1 /\ e.dl2) => e.t1 = T0
        /\ ~(e.dl1 /\ e.dl2 /\ Ran(e.t1) /\ e.t1.clilog) => e.uplog
        /\ ~(e.dl1 /\ e.dl2 /\ Ran(e.t1) /\ e.t1.clilog /\ e.uplog) => e.t2 = T0
        /\ ~(e.dl1 /\ e.dl2 /\ Ran(e.t1) /\ e.t1.clilog /\ e.uplog
             /\ Ran(e.t2) /\ e.t2.errfile # "rows") => e.up}}

HashFilesEnvs ==
    {x : x \in
    {e \in [dl : BOOLEAN, t1 : ToolResults, csv : SeedCsvKinds, zip : SeedZipKinds,
            t2 : ToolResults, county_csv : BOOLEAN, failed : SUBSET (1..4)] :
        /\ ~e.dl => e.t1 = T0
        /\ Ran(e.t1) => e.t1.clilog /\ e.t1.errfile # "empty"
        /\ ~(e.dl /\ Ran(e.t1)) => e.csv = "cid"
        /\ ~Falsy(CidFromCsv(e.csv)) => e.zip = "cid_dir"
        /\ ~(e.dl /\ Ran(e.t1) /\ e.zip = "cid_dir") => e.t2 = T0
        /\ Ran(e.t2) => e.t2.clilog /\ e.t2.errfile # "empty"
        /\ ~(e.dl /\ Ran(e.t1) /\ e.zip = "cid_dir" /\ Ran(e.t2))
              => e.county_csv /\ e.failed = {}}}

UploadHashedEnvs ==
    {x : x \in
    {e \in [dl : BOOLEAN, t1 : ToolResults, t2 : ToolResults, failed : SUBSET (1..2)] :
        /\ ~e.dl => e.t1 = T0
        /\ Ran(e.t1) => e.t1.clilog /\ e.t1.errfile # "empty"
        /\ ~(e.dl /\ Ran(e.t1)) => e.t2 = T0
        /\ Ran(e.t2) => e.t2.clilog /\ e.t2.errfile # "empty"
        /\ ~(e.dl /\ Ran(e.t1) /\ Ran(e.t2)) => e.failed = {}}}

\* the extracted combined archive holds at most MaxCsvFiles CSV files
MaxCsvFiles == 2

\* the CSV files an extracted archive can hold, each with its name, the
\* header its rows are read under, and its rows: the manifests of the seed
\* and of the county hash, under the same or another header, with no row or
\* with one row (written here as the name of its file), and a file that is
\* not a manifest
CsvFiles ==
    {[name |-> name, header |-> header, rows |-> IF filled THEN <<name>> ELSE <<>>] :
        name \in {<<"seed_", "hash", ".csv">>, <<"county_", "hash", ".csv">>},
        header \in {"propertyCid,dataGroupCid,dataCid,filePath", "cid,path"},
        filled \in BOOLEAN}
    \cup {[name |-> <<"notes", ".csv">>, header |-> "note", rows |-> <<Str("note")>>]}

PrepareSubmissionEnvs ==
    {x : x \in
    {e \in [dl : BOOLEAN, csv_files : UNION {[1..n -> CsvFiles] : n \in 0..MaxCsvFiles},
            up : BOOLEAN] :
        ~e.dl => e.csv_files = <<>> /\ e.up}}

SubmitEnvs ==
    {x : x \in
    {e \in [dl : BOOLEAN, t : ToolResults, outfiles : BOOLEAN, up : BOOLEAN] :
        /\ ~e.dl => e.t = T0
        /\ Ran(e.t) => e.t.clilog /\ e.t.errfile # "empty"
        /\ ~(e.dl /\ Ran(e.t)) => e.outfiles
        /\ ~(e.dl /\ Ran(e.t) /\ e.outfiles) => e.up}}

\* the environments of the worlds "store" and "downloads" for an attempt of
\* stage t: every collaborator behaves, except that the first download of the
\* attempt may fail
StoreEnvs(t) ==
    CASE t = "transform_seed" ->
            {[dl |-> d, t1 |-> T0, t2 |-> T0, up |-> TRUE] : d \in BOOLEAN}
      [] t = "prepare_county_via_lambda" ->
            {[ssm |-> "value", prep |-> p,
              resp |-> [raises |-> FALSE, status |-> 200, function_error |-> FALSE,
                        payload |-> "direct"]] : p \in {"ok", "download"}}
      [] t = "transform_county" ->
            {[dl1 |-> d, dl2 |-> TRUE, t1 |-> T0, uplog |-> TRUE, t2 |-> T0,
              up |-> TRUE] : d \in BOOLEAN}
      [] t = "hash_files" ->
            {[dl |-> d, t1 |-> T0, csv |-> "cid", zip |-> "cid_dir", t2 |-> T0,
              county_csv |-> TRUE, failed |-> {}] : d \in BOOLEAN}
      [] t = "upload_hashed_results" ->
            {[dl |-> d, t1 |-> T0, t2 |-> T0, failed |-> {}] : d \in BOOLEAN}
      [] t = "prepare_submission" ->
            {[dl |-> d, csv_files |-> <<>>, up |-> TRUE] : d \in BOOLEAN}
      [] t = "submit_to_blockchain" ->
            {[dl |-> d, t |-> T0, outfiles |-> TRUE, up |-> TRUE] : d \in BOOLEAN}

\* the environments an attempt of stage t draws from
Envs(t, any) == IF world = "any" THEN any ELSE StoreEnvs(t)

----------------------------------------------------------------------------
(* SQS messages and parse_sqs_messages *)

\* a text is what it was written as and the value written: "json" is the
\* JSON encoding of val, "pyrepr" is str() of a received message whose body
\* decodes to val (a dict display with single-quoted keys, which is not JSON),
\* "garbage" is any other text
Text(fmt, val) == [fmt |-> fmt, val |-> val]

\* one entry of body["Records"]: "s3" is an object with s3.bucket.name and
\* s3.object.key, "no_s3" an object without "s3", "s3_no_key" an object whose
\* "s3" entry lacks object.key, "not_object" a number
EventRecord(shape, bucket, key) == [shape |-> shape, bucket |-> bucket, key |-> key]

\* a decoded body: "event" is an object whose "Records" is the list records,
\* "no_records" an object without "Records", "number" a JSON number,
\* "records_number" an object whose "Records" is a number
JsonBody(shape, records) == [shape |-> shape, Records |-> records]

\* the JSON text "{}"
EmptyObject == Text("json", JsonBody("no_records", <<>>))

\* an element of the received batch: "dict" is a message with "MessageId",
\* "ReceiptHandle" and "Body", "no_body" and "no_receipt" are dicts without
\* that key, "not_dict" is a value that is not a dict (a string, a number)
Message(shape, message_id, receipt_handle, body) ==
    [shape |-> shape, MessageId |-> message_id, ReceiptHandle |-> receipt_handle,
     Body |-> body]

\* a value handed over as messages_input or found under its "messages" key:
\* None, a list, a non-zero number, zero, or a string (its items are its
\* characters)
Value(kind, items) == [kind |-> kind, items |-> items]

\* messages_input: "value" is the value itself, "dict_with_messages" a dict
\* whose "messages" entry is the value, "dict_without_messages" any other dict
Input(shape, value) == [shape |-> shape, value |-> value]

\* bool(v)
Truthy(v) == v.kind = "number" \/ (v.kind \in {"list", "string"} /\ v.items # <<>>)

\* whether len(v) and iter(v) are defined
Sized(v) == v.kind \in {"list", "string"}

\* json.loads(text): the exception is raised for every text that is not JSON
JsonLoads(text) == [raised |-> text.fmt # "json", body |-> text.val]

\* the suffix every key ends with
EmptySuffix == <<>>

\* object_key.endswith(".csv")
CsvSuffix == <<".csv">>
EndsWith(s, suffix) ==
    Len(s) >= Len(suffix) /\ SubSeq(s, Len(s) - Len(suffix) + 1, Len(s)) = suffix

RECURSIVE RecordsLoop(_, _, _)
\* `for record in body["Records"]` for one message: acc.files is
\* files_to_process, acc.error whether the loop was left by an exception
RecordsLoop(message, records, acc) ==
    IF records = <<>> THEN acc
    ELSE LET record == Head(records) IN
         IF record.shape = "not_object" THEN [acc EXCEPT !.error = TRUE]
         ELSE IF record.shape = "no_s3" THEN RecordsLoop(message, Tail(records), acc)
         ELSE IF record.shape = "s3_no_key" THEN [acc EXCEPT !.error = TRUE]
         ELSE IF ~EndsWith(record.key, CsvSuffix)
              THEN RecordsLoop(message, Tail(records), acc)
         ELSE IF message.shape = "no_receipt" THEN [acc EXCEPT !.error = TRUE]
         ELSE RecordsLoop(message, Tail(records),
                  [acc EXCEPT !.files = Append(@,
                       FileProcessingInfo(record.bucket, record.key,
                                          message.MessageId, message.ReceiptHandle))])

\* the body of `for message in messages` for one message.  raised: the
\* exception left the except clause (message.get on a value without .get);
\* accepted: the message was appended to original_messages; error: an
\* exception was caught and logged
ParseMessage(message, files_to_process) ==
    LET none == [raised |-> FALSE, accepted |-> FALSE, error |-> TRUE,
                 files |-> files_to_process]
    IN  IF message.shape = "not_dict" THEN [none EXCEPT !.raised = TRUE]
        ELSE IF message.shape = "no_body" THEN none
        ELSE IF JsonLoads(message.Body).raised THEN none
        ELSE LET body == JsonLoads(message.Body).body
                 some == [none EXCEPT !.accepted = TRUE]
             IN  IF body.shape \in {"number", "records_number"} THEN some
                 ELSE IF body.shape = "no_records" THEN [some EXCEPT !.error = FALSE]
                 ELSE LET acc == RecordsLoop(message, body.Records,
                                             [files |-> files_to_process,
                                              error |-> FALSE])
                      IN  [some EXCEPT !.error = acc.error, !.files = acc.files]

RECURSIVE MessagesLoop(_, _)
\* `for message in messages`: the state of the loop after the messages msgs,
\* starting from acc
MessagesLoop(msgs, acc) ==
    IF msgs = <<>> \/ acc.raised THEN acc
    ELSE LET one == ParseMessage(Head(msgs), acc.files)
         IN  MessagesLoop(Tail(msgs),
                 [raised |-> one.raised,
                  files |-> one.files,
                  original_messages |->
                      IF one.accepted THEN Append(acc.original_messages, Head(msgs))
                      ELSE acc.original_messages,
                  errors |-> IF one.error THEN acc.errors + 1 ELSE acc.errors])

\* the result of parse_sqs_messages(messages_input): whether it raised, the
\* list it returns, the XCom it pushes (<<>>: none pushed), and the number
\* of messages it logged as errors
NoParse == [raised |-> FALSE, files |-> <<>>, original_messages |-> <<>>, errors |-> 0]
ParseSqsMessagesBody(messages_input) ==
    LET v == messages_input.value IN
    IF messages_input.shape = "dict_without_messages" THEN NoParse
    ELSE IF messages_input.shape = "dict_with_messages"
         THEN IF ~Truthy(v) THEN NoParse
              ELSE IF ~Sized(v) THEN [NoParse EXCEPT !.raised = TRUE]
              ELSE MessagesLoop(v.items, NoParse)
    ELSE IF v.kind = "none" THEN NoParse
    ELSE IF v.kind = "list" THEN MessagesLoop(v.items, NoParse)
    ELSE IF ~Truthy(v) \/ ~Sized(v) THEN NoParse
    ELSE MessagesLoop(v.items, NoParse)

----------------------------------------------------------------------------
(* Actions *)

\* datetime.now(tz=timezone.utc).isoformat()
Timestamps == {<<"2024-01-01T00", ":", "00", ":", "00", "+", "00", ":", "00">>}

\* str(uuid.uuid4())[:8]
Suffixes == {Str("1a2b3c4d"), Str("9f8e7d6c")}

initialize_state(r) ==
    /\ ti[r]["initialize_state"] = "none"
    /\ \E timestamp \in Timestamps, unique_suffix \in Suffixes :
         LET run_id == Slash(timestamp, unique_suffix)
             state == WorkflowState(files[r], config.output_base_uri, run_id)
         IN  /\ xcom' = [xcom EXCEPT ![r] = state]
             /\ local' = [local EXCEPT ![r] = state]
    /\ ti' = [ti EXCEPT ![r]["initialize_state"] = "success"]
    /\ tries' = [tries EXCEPT ![r]["initialize_state"] = 1]
    /\ UNCHANGED <<config, world, files, exc, lastdoc, written, faults>>
    /\ UNCHANGED cycleVars

transform_seed(r) ==
    /\ Runnable(r, "transform_seed")
    /\ \E res \in {TransformSeedBody(xcom[r], e.dl, e.t1, e.t2, e.up) : e \in Envs("transform_seed", TransformSeedEnvs)} :
       \E ew \in ErrorDocUploads("transform_seed", res) :
         Attempt(r, "transform_seed", res, ew)

prepare_county_via_lambda(r) ==
    /\ Runnable(r, "prepare_county_via_lambda")
    /\ \E res \in {PrepareCountyBody(xcom[r], config, e.ssm, e.prep, e.resp) :
                     e \in Envs("prepare_county_via_lambda", PrepareCountyEnvs)} :
       \E ew \in ErrorDocUploads("prepare_county_via_lambda", res) :
         Attempt(r, "prepare_county_via_lambda", res, ew)

transform_county(r) ==
    /\ Runnable(r, "transform_county")
    /\ \E res \in {TransformCountyBody(xcom[r], config, e.dl1, e.dl2, e.t1, e.uplog, e.t2, e.up) :
                     e \in Envs("transform_county", TransformCountyEnvs)} :
       \E ew \in ErrorDocUploads("transform_county", res) :
         Attempt(r, "transform_county", res, ew)

hash_files(r) ==
    /\ Runnable(r, "hash_files")
    /\ \E res \in {HashFilesBody(xcom[r], e.dl, e.t1, e.csv, e.zip, e.t2, e.county_csv, e.failed) :
                     e \in Envs("hash_files", HashFilesEnvs)} :
       \E ew \in ErrorDocUploads("hash_files", res) :
         Attempt(r, "hash_files", res, ew)

upload_hashed_results(r) ==
    /\ Runnable(r, "upload_hashed_results")
    /\ \E res \in {UploadHashedBody(xcom[r], config, e.dl, e.t1, e.t2, e.failed) :
                     e \in Envs("upload_hashed_results", UploadHashedEnvs)} :
       \E ew \in ErrorDocUploads("upload_hashed_results", res) :
         Attempt(r, "upload_hashed_results", res, ew)

prepare_submission(r) ==
    /\ Runnable(r, "prepare_submission")
    /\ \E res \in {PrepareSubmissionBody(xcom[r], e.dl, e.csv_files, e.up) :
                     e \in Envs("prepare_submission", PrepareSubmissionEnvs)} :
       \E ew \in ErrorDocUploads("prepare_submission", res) :
         Attempt(r, "prepare_submission", res, ew)

submit_to_blockchain(r) ==
    /\ Runnable(r, "submit_to_blockchain")
    /\ \E res \in {SubmitBody(xcom[r], config, e.dl, e.t, e.outfiles, e.up) : e \in Envs("submit_to_blockchain", SubmitEnvs)} :
       \E ew \in ErrorDocUploads("submit_to_blockchain", res) :
         Attempt(r, "submit_to_blockchain", res, ew)

\* the scheduler marks the tasks downstream of a failed task: their trigger
\* rule can no longer be met
upstream_failed(r) ==
    \E t \in StageSet :
        /\ ti[r][t] = "failed"
        /\ \E u \in Later(t) : ti[r][u] = "none"
        /\ ti' = [ti EXCEPT ![r] = [u \in Tasks |->
                     IF u \in Later(t) THEN "upstream_failed" ELSE ti[r][u]]]
        /\ UNCHANGED <<config, world, files, tries, xcom, local, exc, lastdoc, written, faults>>
        /\ UNCHANGED cycleVars

----------------------------------------------------------------------------
(* The poll cycle around the task group *)

\* the task instances outside the task group.  dag holds the state each of
\* them was left in by running (or, for process_single_file, by expansion);
\* the states the scheduler derives from upstream states are TaskState
NoDag ==
    [poll_sqs_queue |-> "none", parse_sqs_messages |-> "none", parse_tries |-> 0,
     process_single_file |-> "none",
     requeue_on_success |-> "none", requeue_on_failure |-> "none"]

\* soft_fail=True: a sensor that times out is skipped
SensorTimeoutHardFail == "failed"
SensorTimeoutState == "skipped"

\* the state of the task instances of the leaf task of the task group
\* (submit_to_blockchain), the upstream of both requeue operators
LeafStates ==
    IF dag.process_single_file = "expanded"
    THEN {ti[r]["submit_to_blockchain"] : r \in DOMAIN ti}
    ELSE IF dag.poll_sqs_queue = "failed" \/ dag.parse_sqs_messages = "failed"
         THEN {"upstream_failed"}
    ELSE IF dag.poll_sqs_queue = "skipped" \/ dag.process_single_file = "skipped"
         THEN {"skipped"}
    ELSE {"none"}

Failed == {"failed", "upstream_failed"}
Finished == {"success", "skipped", "failed", "upstream_failed"}

\* TriggerRule.ALL_DONE: met when every upstream task instance has finished
AllDone ==
    IF LeafStates \subseteq Finished /\ LeafStates # {"skipped"} THEN "met"
    ELSE IF LeafStates = {"skipped"} THEN "skipped"
    ELSE "none"

\* TriggerRule.ALL_SUCCESS: met when every upstream task instance succeeded;
\* an upstream failure makes the task upstream_failed, an upstream skip skipped
AllSuccess ==
    IF LeafStates \cap Failed # {} THEN "upstream_failed"
    ELSE IF "skipped" \in LeafStates THEN "skipped"
    ELSE IF LeafStates = {"success"} THEN "met"
    ELSE "none"

\* TriggerRule.ONE_FAILED: met as soon as one upstream task instance is failed
\* or upstream_failed; skipped when all have finished and none has failed
OneFailed ==
    IF LeafStates \cap Failed # {} THEN "met"
    ELSE IF LeafStates \subseteq Finished THEN "skipped"
    ELSE "none"

\* the state of a task instance outside the task group
TaskState(t) ==
    CASE t = "poll_sqs_queue" -> dag.poll_sqs_queue
      [] t = "parse_sqs_messages" ->
            IF dag.poll_sqs_queue = "skipped" THEN "skipped"
            ELSE IF dag.poll_sqs_queue = "failed" THEN "upstream_failed"
            ELSE dag.parse_sqs_messages
      [] t = "requeue_on_success" ->
            IF dag.requeue_on_success # "none" THEN dag.requeue_on_success
            ELSE IF AllSuccess = "met" THEN "none" ELSE AllSuccess
      [] t = "requeue_on_failure" ->
            IF dag.requeue_on_failure # "none" THEN dag.requeue_on_failure
            ELSE IF OneFailed = "met" THEN "none" ELSE OneFailed

\* the state of the DAG run: running while a task instance is unfinished;
\* then failed when a leaf task is failed or upstream_failed, success otherwise
DagRunState ==
    LET leaves == {TaskState("requeue_on_success"), TaskState("requeue_on_failure")}
        unfinished == \E r \in Runs : \E t \in Tasks : ti[r][t] \notin Finished
    IN  IF unfinished \/ ~(leaves \subseteq Finished) THEN "running"
        ELSE IF leaves \cap Failed # {} THEN "failed"
        ELSE "success"

\* max_messages of the sensor: Variable elephant_batch_size
MaxMessages == 2

\* SqsSensor(max_messages=..., num_batches=1, soft_fail=True,
\* delete_message_on_reception=True): receives up to max_messages messages,
\* deletes them from the queue and pushes them as XCom "messages"; with no
\* message before the timeout the sensor is skipped
poll_sqs_queue ==
    /\ dag.poll_sqs_queue = "none"
    /\ IF queue = <<>>
       THEN /\ dag' = [dag EXCEPT !.poll_sqs_queue = SensorTimeoutState]
            /\ UNCHANGED <<queue, messages>>
       ELSE \E n \in 1..MaxMessages :
              /\ n <= Len(queue)
              /\ messages' = Input("value", Value("list", SubSeq(queue, 1, n)))
              /\ queue' = SubSeq(queue, n + 1, Len(queue))
              /\ dag' = [dag EXCEPT !.poll_sqs_queue = "success"]
    /\ UNCHANGED <<original_messages, published, config, world>>
    /\ UNCHANGED runVars

\* one attempt of parse_sqs_messages(sqs_sensor.output["messages"]); the
\* returned list is the XCom the task group is expanded over.  A non-empty
\* original_messages is pushed with ctx["ti"].xcom_push, which may raise (not
\* in the world "input"): then the attempt fails and has pushed nothing.
parse_sqs_messages ==
    /\ dag.poll_sqs_queue = "success"
    /\ dag.parse_sqs_messages \in {"none", "up_for_retry"}
    /\ \E xcom_push \in IF /\ world # "input"
                            /\ ParseSqsMessagesBody(messages).original_messages # <<>>
                         THEN BOOLEAN ELSE {TRUE} :
       LET body == ParseSqsMessagesBody(messages)
           res == IF xcom_push THEN body ELSE [body EXCEPT !.raised = TRUE]
           n   == dag.parse_tries + 1
       IN  IF res.raised
           THEN /\ dag' = [dag EXCEPT !.parse_tries = n,
                               !.parse_sqs_messages =
                                   StateAfterFailure("parse_sqs_messages", n)]
                /\ UNCHANGED <<files, original_messages>>
           ELSE /\ dag' = [dag EXCEPT !.parse_tries = n, !.parse_sqs_messages = "success"]
                /\ files' = res.files
                /\ original_messages' = res.original_messages
    /\ UNCHANGED <<config, world, queue, messages, published>>
    /\ UNCHANGED <<ti, tries, xcom, local, exc, lastdoc, written, faults>>

\* process_single_file.expand(file_info=files_to_process): one instance of
\* the task group per element of the list; an empty list skips the group
expand ==
    /\ dag.parse_sqs_messages = "success"
    /\ dag.process_single_file = "none"
    /\ dag' = [dag EXCEPT !.process_single_file =
                              IF files = <<>> THEN "skipped" ELSE "expanded"]
    /\ ti' = [r \in DOMAIN files |-> [t \in Tasks |-> "none"]]
    /\ tries' = [r \in DOMAIN files |-> [t \in Tasks |-> 0]]
    /\ xcom' = [r \in DOMAIN files |-> NoState]
    /\ local' = [r \in DOMAIN files |-> NoState]
    /\ exc' = [r \in DOMAIN files |-> NoExc]
    /\ lastdoc' = [r \in DOMAIN files |-> NoDoc]
    /\ written' = [r \in DOMAIN files |-> {}]
    /\ UNCHANGED <<config, world, files, faults, queue, messages, original_messages, published>>

\* the message_content template of both requeue operators, rendered to a
\* string: str() of the first element of XCom original_messages, "{}" when
\* the XCom is missing or empty
MessageContent ==
    IF original_messages # <<>>
    THEN Text("pyrepr", JsonLoads(original_messages[1].Body).body)
    ELSE EmptyObject

\* SqsPublishOperator.execute: sends message_content to the queue
Publish(task, delay_seconds) ==
    /\ published' = Append(published,
           [task |-> task, message_content |-> MessageContent,
            delay_seconds |-> delay_seconds])
    /\ queue' = Append(queue, Message("dict", Str(task), Str(task), MessageContent))
    /\ UNCHANGED <<config, world, messages, original_messages>>
    /\ UNCHANGED runVars

\* requeue_on_success: trigger_rule=ALL_SUCCESS, delay_seconds=0
requeue_on_success ==
    /\ dag.requeue_on_success = "none"
    /\ AllSuccess = "met"
    /\ dag' = [dag EXCEPT !.requeue_on_success = "success"]
    /\ Publish("requeue_on_success", 0)

\* requeue_on_failure: trigger_rule=ONE_FAILED, delay_seconds=300
requeue_on_failure ==
    /\ dag.requeue_on_failure = "none"
    /\ OneFailed = "met"
    /\ dag' = [dag EXCEPT !.requeue_on_failure = "success"]
    /\ Publish("requeue_on_failure", 300)

----------------------------------------------------------------------------
(* Specification *)

Buckets == {Str("b")}
ObjectKeys == {<<"in", "/", "file", ".csv">>}

\* the descriptors parse_sqs_messages hands to the task group
FileInfos ==
    {FileProcessingInfo(b, k, Str("m1"), Str("rh1")) : b \in Buckets, k \in ObjectKeys}

\* the received message that parse_sqs_messages turns into the descriptor f
MessageFor(f) ==
    Message("dict", f.message_id, f.receipt_handle,
            Text("json", JsonBody("event",
                <<EventRecord("s3", f.bucket_name, f.object_key)>>)))

\* one poll cycle that fans out one run: the state after the expansion
Init ==
    /\ config \in Configs
    /\ world = "any"
    /\ files \in {<<f>> : f \in FileInfos}
    /\ ti = [r \in DOMAIN files |-> [t \in Tasks |-> "none"]]
    /\ tries = [r \in DOMAIN files |-> [t \in Tasks |-> 0]]
    /\ xcom = [r \in DOMAIN files |-> NoState]
    /\ local = [r \in DOMAIN files |-> NoState]
    /\ exc = [r \in DOMAIN files |-> NoExc]
    /\ lastdoc = [r \in DOMAIN files |-> NoDoc]
    /\ written = [r \in DOMAIN files |-> {}]
    /\ faults = 0
    /\ queue = <<>>
    /\ messages = Input("value", Value("list", <<MessageFor(files[1])>>))
    /\ original_messages = <<MessageFor(files[1])>>
    /\ dag = [NoDag EXCEPT !.poll_sqs_queue = "success",
                           !.parse_sqs_messages = "success", !.parse_tries = 1,
                           !.process_single_file = "expanded"]
    /\ published = <<>>

InitializeState == \E r \in Runs : initialize_state(r)
TransformSeed == \E r \in Runs : transform_seed(r)
PrepareCountyViaLambda == \E r \in Runs : prepare_county_via_lambda(r)
TransformCounty == \E r \in Runs : transform_county(r)
HashFiles == \E r \in Runs : hash_files(r)
UploadHashedResults == \E r \in Runs : upload_hashed_results(r)
PrepareSubmission == \E r \in Runs : prepare_submission(r)
SubmitToBlockchain == \E r \in Runs : submit_to_blockchain(r)
UpstreamFailed == \E r \in Runs : upstream_failed(r)

Next ==
    \/ InitializeState
    \/ TransformSeed
    \/ PrepareCountyViaLambda
    \/ TransformCounty
    \/ HashFiles
    \/ UploadHashedResults
    \/ PrepareSubmission
    \/ SubmitToBlockchain
    \/ UpstreamFailed

Spec == Init /\ [][Next]_vars

\* one run with the complete configuration in which any download may fail, and
\* a scheduler that starts a task instance that can run
InitLive ==
    /\ config = FullConfig
    /\ world = "downloads"
    /\ files \in {<<f>> : f \in FileInfos}
    /\ ti = [r \in DOMAIN files |-> [t \in Tasks |-> "none"]]
    /\ tries = [r \in DOMAIN files |-> [t \in Tasks |-> 0]]
    /\ xcom = [r \in DOMAIN files |-> NoState]
    /\ local = [r \in DOMAIN files |-> NoState]
    /\ exc = [r \in DOMAIN files |-> NoExc]
    /\ lastdoc = [r \in DOMAIN files |-> NoDoc]
    /\ written = [r \in DOMAIN files |-> {}]
    /\ faults = 0
    /\ queue = <<>>
    /\ messages = Input("value", Value("list", <<MessageFor(files[1])>>))
    /\ original_messages = <<MessageFor(files[1])>>
    /\ dag = [NoDag EXCEPT !.poll_sqs_queue = "success",
                           !.parse_sqs_messages = "success", !.parse_tries = 1,
                           !.process_single_file = "expanded"]
    /\ published = <<>>

SpecLive == InitLive /\ [][Next]_vars /\ WF_vars(Next)

----------------------------------------------------------------------------
(* Specification of the parser: parse_sqs_messages applied to any input *)

\* the entries of body["Records"]: for an object whose key ends with ".csv",
\* for one whose key does not, and the entries that are not storage events
EventRecords ==
    {EventRecord("s3", b, k) :
        b \in Buckets, k \in ObjectKeys \cup {<<"in", "/", "notes", ".txt">>}}
    \cup {EventRecord(shape, Null, Null) : shape \in {"no_s3", "s3_no_key", "not_object"}}

\* an event notification carries at most MaxRecords records
MaxRecords == 2

\* message bodies: event notifications, other JSON texts, and text that is
\* not JSON
Bodies ==
    {Text("json", JsonBody("event", records)) :
        records \in UNION {[1..n -> EventRecords] : n \in 0..MaxRecords}}
    \cup {Text("json", JsonBody(shape, <<>>)) :
             shape \in {"no_records", "number", "records_number"}}
    \cup {Text("garbage", JsonBody("number", <<>>))}

MessageIds == <<Str("m1"), Str("m2"), Str("m3")>>
ReceiptHandles == <<Str("rh1"), Str("rh2"), Str("rh3")>>

\* a value of the batch that is not a message dict
NotDict == Message("not_dict", Null, Null, EmptyObject)

\* what the i-th element of a batch can be
Messages(i) ==
    {Message(shape, MessageIds[i], ReceiptHandles[i], body) :
        shape \in {"dict", "no_receipt"}, body \in Bodies}
    \cup {Message("no_body", MessageIds[i], ReceiptHandles[i], EmptyObject), NotDict}

\* a batch has at most MaxBatch elements
MaxBatch == 2

\* the batches of at most n elements
Batches(n) ==
    UNION {{b \in [1..k -> UNION {Messages(i) : i \in 1..k}] :
               \A i \in 1..k : b[i] \in Messages(i)} : k \in 0..n}

\* the values of messages_input over batches of at most n elements: None, a
\* list, a number, zero, a string, each as it is or as the "messages" entry of
\* a dict, and a dict without it
Inputs(n) ==
    LET values ==
            {Value("list", b) : b \in Batches(n)}
            \cup {Value(kind, <<>>) : kind \in {"none", "number", "zero", "string"}}
            \cup {Value("string", <<NotDict>>)}
    IN  {Input(shape, v) : shape \in {"value", "dict_with_messages"}, v \in values}
        \cup {Input("dict_without_messages", Value("none", <<>>))}

\* no XCom "messages"
NoMessages == Input("value", Value("none", <<>>))

InitParse ==
    /\ config = FullConfig
    /\ world = "input"
    /\ messages \in Inputs(MaxBatch)
    /\ dag = [NoDag EXCEPT !.poll_sqs_queue = "success"]
    /\ queue = <<>>
    /\ original_messages = <<>>
    /\ published = <<>>
    /\ files = <<>>
    /\ ti = <<>> /\ tries = <<>> /\ xcom = <<>> /\ local = <<>>
    /\ exc = <<>> /\ lastdoc = <<>> /\ written = <<>>
    /\ faults = 0

NextParse == parse_sqs_messages

SpecParse == InitParse /\ [][NextParse]_vars

----------------------------------------------------------------------------
(* Specification of a poll cycle *)

\* the event notification for the objects keys of bucket b, as message i
S3Message(i, b, keys) ==
    Message("dict", MessageIds[i], ReceiptHandles[i],
            Text("json", JsonBody("event",
                [j \in 1..Len(keys) |-> EventRecord("s3", b, keys[j])])))

\* the queue at the start of the cycle: empty, one notification for one or
\* two objects, two notifications for two different objects, a notification
\* behind a message that is not JSON, a notification for an object that is
\* not a .csv
CycleQueues ==
    LET csv == <<"in", "/", "file", ".csv">>
        other == <<"in", "/", "other", ".csv">>
        txt == <<"in", "/", "notes", ".txt">>
        b   == Str("b")
    IN  { <<>>,
          <<S3Message(1, b, <<csv>>)>>,
          <<S3Message(1, b, <<csv, csv>>)>>,
          <<S3Message(1, b, <<csv>>), S3Message(2, b, <<other>>)>>,
          <<Message("dict", MessageIds[1], ReceiptHandles[1],
                    Text("garbage", JsonBody("number", <<>>))),
            S3Message(2, b, <<csv>>)>>,
          <<S3Message(1, b, <<txt>>)>> }

InitCycle ==
    /\ config = FullConfig
    /\ world = "store"
    /\ queue \in CycleQueues
    /\ dag = NoDag
    /\ messages = NoMessages
    /\ original_messages = <<>>
    /\ published = <<>>
    /\ files = <<>>
    /\ ti = <<>> /\ tries = <<>> /\ xcom = <<>> /\ local = <<>>
    /\ exc = <<>> /\ lastdoc = <<>> /\ written = <<>>
    /\ faults = 0


NextCycle ==
    \/ poll_sqs_queue
    \/ parse_sqs_messages
    \/ expand
    \/ InitializeState
    \/ TransformSeed
    \/ PrepareCountyViaLambda
    \/ TransformCounty
    \/ HashFiles
    \/ UploadHashedResults
    \/ PrepareSubmission
    \/ SubmitToBlockchain
    \/ UpstreamFailed
    \/ requeue_on_success
    \/ requeue_on_failure

SpecCycle == InitCycle /\ [][NextCycle]_vars

----------------------------------------------------------------------------
(* Properties of one run *)

\* the stage of run r whose last attempt raised
Raised(r, t) == ti[r][t] \in {"up_for_retry", "failed"}

\* C1: in every run the stages start in the fixed order transform_seed,
\* prepare_county_via_lambda, transform_county, hash_files,
\* upload_hashed_results, prepare_submission, submit_to_blockchain: an attempt
\* of a stage starts only when every stage before it in that order has
\* succeeded, no stage after it has been attempted, and the state the stage
\* receives has the fields it requires populated.
C1_Order ==
    << "transform_seed", "prepare_county_via_lambda", "transform_county",
       "hash_files", "upload_hashed_results", "prepare_submission",
       "submit_to_blockchain" >>

C1_StagesStartInOrder ==
    [][\A r \in Runs : \A i \in 1..7 :
          tries'[r][C1_Order[i]] > tries[r][C1_Order[i]]
          => /\ ti[r]["initialize_state"] = "success"
             /\ \A j \in 1..(i - 1) : ti[r][C1_Order[j]] = "success"
             /\ \A j \in (i + 1)..7 : tries[r][C1_Order[j]] = 0
             /\ HasRequired(C1_Order[i], xcom[r])]_vars

C1_Witness ==
    \E r \in Runs : /\ ti[r]["submit_to_blockchain"] = "success"
                    /\ tries[r]["hash_files"] = 1
                    /\ tries[r]["transform_county"] = 2

\* C2: once a stage of a run has failed, it stays failed and no later stage of
\* the run is ever attempted: every later stage has no attempt and is not
\* started, succeeded or failed itself.
C2_FailFast ==
    /\ [](\A r \in Runs : \A t \in StageSet :
            ti[r][t] = "failed"
            => \A u \in Later(t) : tries[r][u] = 0 /\ ti[r][u] \in {"none", "upstream_failed"})
    /\ [][\A r \in Runs : \A t \in StageSet :
            ti[r][t] = "failed" => ti'[r][t] = "failed" /\ tries'[r] = tries[r]]_vars

C2_Witness ==
    \E r \in Runs : /\ ti[r]["transform_seed"] = "failed"
                    /\ local[r].error = MsgSeedInvalid
                    /\ ti[r]["submit_to_blockchain"] = "upstream_failed"

C4_ErrorDocumentWritten ==
    \A r \in Runs : \A t \in StageSet :
        (Raised(r, t) /\ exc[r].raised_in = "try")
        => /\ lastdoc[r] # NoDoc
           /\ lastdoc[r].path \in written[r]
           /\ lastdoc[r].error = local[r].error

\* C5: when a stage fails, error_step and the step of the error document are
\* the name of the stage: transform_seed, prepare_county_via_lambda,
\* transform_county, hash, upload_hashed_results, prepare_submission, submit.
C5_StageName(t) ==
    CASE t = "transform_seed"            -> "transform_seed"
      [] t = "prepare_county_via_lambda" -> "prepare_county_via_lambda"
      [] t = "transform_county"          -> "transform_county"
      [] t = "hash_files"                -> "hash"
      [] t = "upload_hashed_results"     -> "upload_hashed_results"
      [] t = "prepare_submission"        -> "prepare_submission"
      [] t = "submit_to_blockchain"      -> "submit"

C5_ErrorStepNamesStage ==
    \A r \in Runs : \A t \in StageSet :
        Raised(r, t)
        => /\ local[r].error_step = Str(C5_StageName(t))
           /\ lastdoc[r] # NoDoc => lastdoc[r].step = Str(C5_StageName(t))

\* C6: the exception that propagates out of a failed attempt is the original
\* error of the stage (the one recorded in state.error), also when the upload
\* of the error document fails.
C6_OriginalErrorPropagates ==
    \A r \in Runs : \A t \in StageSet :
        Raised(r, t) => exc[r].msg = local[r].error /\ exc[r].raised_in = "try"

\* C7: every object a run writes, each error document included, is under the
\* run directory {output_base}/{sanitized_run_id}/{input_artifact_name}/, and
\* an error document is under its errors/ subpath.
C7_RunDirectory(s) == CommonOutputUri(s) \o <<"/">>

C7_AllWritesUnderRunDirectory ==
    \A r \in Runs :
        /\ \A p \in written[r] : IsPrefix(C7_RunDirectory(xcom[r]), p)
        /\ lastdoc[r] # NoDoc
           => IsPrefix(C7_RunDirectory(xcom[r]) \o <<"errors", "/">>, lastdoc[r].path)

\* C8: when the tool leaves a non-empty error report in transform_seed or in
\* transform_county, the stage fails and is not retried: it has been attempted
\* exactly once and is failed, not waiting for a retry.
C8_ValidationMsgs == {MsgSeedInvalid, MsgCountyInvalid, MsgValidation}

C8_ValidationFailureNotRetried ==
    \A r \in Runs : \A t \in {"transform_seed", "transform_county"} :
        (Raised(r, t) /\ local[r].error \in C8_ValidationMsgs)
        => ti[r][t] = "failed" /\ tries[r][t] = 1

\* C9: hash_files is attempted at most once per run: an attempt that raises,
\* whatever the reason, leaves the task failed, never waiting for a retry.
C9_HashAttemptedAtMostOnce ==
    \A r \in Runs :
        /\ tries[r]["hash_files"] <= 1
        /\ ti[r]["hash_files"] # "up_for_retry"
        /\ (tries[r]["hash_files"] = 1 /\ exc[r] # NoExc /\ local[r].error_step = Str("hash"))
           => ti[r]["hash_files"] = "failed"

C9_Witness ==
    \E r \in Runs : /\ ti[r]["hash_files"] = "failed"
                    /\ local[r].error = MsgNoCid
                    /\ exc[r].msg = MsgNoCid

\* C10: a configuration error (no function identifier, no script bundle
\* location, no publishing credential, a missing submission credential) fails
\* the stage on its first attempt, and the stage is not attempted again.
C10_ConfigErrorFailsAtOnce ==
    \A r \in Runs : \A t \in StageSet :
        (Raised(r, t) /\ local[r].error \in ConfigErrorMsgs)
        => ti[r][t] = "failed" /\ tries[r][t] = 1

----------------------------------------------------------------------------
(* Properties of a poll cycle *)

RunSucceeded(r) == ti[r]["submit_to_blockchain"] = "success"
RunFailed(r) == \E t \in Tasks : ti[r][t] = "failed"
RunTerminal(r) == RunSucceeded(r) \/ RunFailed(r)

\* C11: in a poll cycle that fanned out at least one run, at most one
\* follow-up message is ever published, and exactly one once every run is
\* terminal and both requeue tasks have finished; a published message has
\* delay 0 only when every run succeeded and delay 300 only when at least
\* one run failed, so the two are never both published.
C11_OneFollowUp ==
    Runs # {} =>
        /\ Len(published) <= 1
        /\ \A i \in DOMAIN published :
              \/ /\ published[i].delay_seconds = 0
                 /\ published[i].task = "requeue_on_success"
                 /\ \A r \in Runs : RunSucceeded(r)
              \/ /\ published[i].delay_seconds = 300
                 /\ published[i].task = "requeue_on_failure"
                 /\ \E r \in Runs : RunFailed(r)
        /\ (\A r \in Runs : RunTerminal(r)) /\ published = <<>>
              => \/ AllSuccess = "met" /\ OneFailed # "met"
                 \/ OneFailed = "met" /\ AllSuccess # "met"
                 \/ \E r \in Runs : ENABLED upstream_failed(r)
        /\ DagRunState # "running" => Len(published) = 1

\* two runs, one succeeded and one failed, and the delayed follow-up published
C11_Witness ==
    /\ \E r, q \in Runs : RunSucceeded(r) /\ RunFailed(q)
    /\ \A r \in Runs : RunTerminal(r)
    /\ Len(published) = 1
    /\ published[1].delay_seconds = 300

\* C12: a follow-up message is published only after every run of the cycle
\* has reached a terminal state: no step that publishes, whether of
\* requeue_on_success or of requeue_on_failure, is taken while some run has
\* neither succeeded nor failed.
C12_PublishAfterAllRunsTerminal ==
    [][published' # published => \A r \in Runs : RunTerminal(r)]_vars

\* the storage locations parse_sqs_messages yields for one received message
C13_Locations(message) ==
    LET res == ParseSqsMessagesBody(Input("value", Value("list", <<message>>)))
    IN  [i \in DOMAIN res.files |-> res.files[i].input_csv_uri]

\* C13: the content of a published follow-up is, verbatim, the body of the
\* first accepted message of the batch, and the parser yields for the
\* follow-up, once received, the same storage locations as for that message.
C13_FollowUpIsFirstMessage ==
    \A i \in DOMAIN published :
        original_messages # <<>> =>
            /\ published[i].message_content = original_messages[1].Body
            /\ C13_Locations(Message("dict", MessageIds[3], ReceiptHandles[3],
                                     published[i].message_content))
                 = C13_Locations(original_messages[1])

\* C14: a poll cycle whose poller received no message counts as a success:
\* no task of it is failed, once polled the DAG run is successful, the parser
\* is not run, no run is started and no follow-up message is published.
C14_EmptyPollIsSuccess ==
    (dag.poll_sqs_queue # "none" /\ messages = NoMessages) =>
        /\ DagRunState = "success"
        /\ \A t \in {"poll_sqs_queue", "parse_sqs_messages", "requeue_on_success",
                      "requeue_on_failure"} : TaskState(t) = "skipped"
        /\ dag.process_single_file = "none"
        /\ Runs = {}
        /\ published = <<>>

\* the poller has timed out on an empty queue
C14_Witness ==
    /\ dag.poll_sqs_queue = "skipped"
    /\ messages = NoMessages
    /\ queue = <<>>

----------------------------------------------------------------------------
(* Properties of the parser *)

\* the batch handed to the parser, when messages_input is a list
C15_Batch == messages.value.items

\* a well-formed message: a dict with all its keys whose body is the JSON
\* text of an event notification, each record being an object with or
\* without "s3"
C15_WellFormed(message) ==
    /\ message.shape = "dict"
    /\ message.Body.fmt = "json"
    /\ message.Body.val.shape = "event"
    /\ \A j \in DOMAIN message.Body.val.Records :
          message.Body.val.Records[j].shape \in {"s3", "no_s3"}

\* the records of the batch that are storage-event records whose key ends
\* with ".csv", as pairs of message index and record index
C15_Matching ==
    {p \in (1..Len(C15_Batch)) \X (1..MaxRecords + 1) :
        /\ p[2] <= Len(C15_Batch[p[1]].Body.val.Records)
        /\ LET record == C15_Batch[p[1]].Body.val.Records[p[2]]
           IN  /\ record.shape = "s3"
               /\ record.key[Len(record.key)] = ".csv"}

\* the position of a matching record in message order, then record order
C15_Rank(p) ==
    1 + Cardinality({q \in C15_Matching :
                        q[1] < p[1] \/ (q[1] = p[1] /\ q[2] < p[2])})

\* C15: for a batch of well-formed messages the parser returns exactly one
\* descriptor per storage-event record whose key ends with ".csv", in message
\* order and then record order, carrying the location s3://<bucket>/<key> and
\* the id of the message of the record, and none for any other record.
C15_OneDescriptorPerMatchingRecord ==
    ( /\ dag.parse_sqs_messages # "none"
      /\ messages.shape = "value" /\ messages.value.kind = "list"
      /\ \A i \in DOMAIN C15_Batch : C15_WellFormed(C15_Batch[i]) ) =>
        /\ dag.parse_sqs_messages = "success"
        /\ Len(files) = Cardinality(C15_Matching)
        /\ \A p \in C15_Matching :
              LET record == C15_Batch[p[1]].Body.val.Records[p[2]]
                  file_info == files[C15_Rank(p)]
              IN  /\ file_info.input_csv_uri =
                        <<"s3", ":", "/", "/">> \o record.bucket \o <<"/">> \o record.key
                  /\ file_info.bucket_name = record.bucket
                  /\ file_info.object_key = record.key
                  /\ file_info.message_id = C15_Batch[p[1]].MessageId

\* two well-formed messages parsed, with matching records in both and a
\* record that does not match
C15_Witness ==
    /\ dag.parse_sqs_messages = "success"
    /\ messages.shape = "value" /\ messages.value.kind = "list"
    /\ Len(C15_Batch) = 2
    /\ \A i \in DOMAIN C15_Batch : C15_WellFormed(C15_Batch[i])
    /\ Len(files) = 3
    /\ \E i \in DOMAIN C15_Batch : \E j \in DOMAIN C15_Batch[i].Body.val.Records :
          <<i, j>> \notin C15_Matching

\* the descriptors the parser returned for the records of message i
C16_Returned(i) ==
    \A j \in DOMAIN C15_Batch[i].Body.val.Records :
        LET record == C15_Batch[i].Body.val.Records[j]
        IN  (record.shape = "s3" /\ record.key[Len(record.key)] = ".csv") =>
                \E k \in DOMAIN files :
                    /\ files[k].message_id = C15_Batch[i].MessageId
                    /\ files[k].object_key = record.key
                    /\ files[k].bucket_name = record.bucket

\* C16: whatever the elements of the batch are (a body that is not JSON, a
\* missing key, a value that is not a message dict), an attempt of
\* parse_sqs_messages does not raise: it succeeds, and the list it returns
\* holds the descriptors of every well-formed message of the batch.
C16_UndecodableMessageSkipped ==
    ( /\ dag.parse_sqs_messages # "none"
      /\ messages.shape = "value" /\ messages.value.kind = "list" ) =>
        /\ dag.parse_sqs_messages = "success"
        /\ \A i \in DOMAIN C15_Batch : C15_WellFormed(C15_Batch[i]) => C16_Returned(i)

\* C17: for every value of messages_input (None, a list, a dict with a
\* "messages" entry of any value, a dict without one, any other value) an
\* attempt of parse_sqs_messages does not raise and returns a list, the empty
\* list when the value is neither a list nor a dict with a "messages" list.
C17_AnyInputGivesList ==
    dag.parse_sqs_messages # "none" =>
        /\ dag.parse_sqs_messages = "success"
        /\ (messages.shape = "dict_without_messages" \/ messages.value.kind # "list")
              => files = <<>>

----------------------------------------------------------------------------
(* Properties of the runs of a poll cycle *)

Initialized(r) == ti[r]["initialize_state"] = "success"

\* C18: the task group is expanded into exactly one run per descriptor, each
\* run processing its own descriptor, and the run ids of any two runs are
\* different, also when both runs have the same source artifact and the same
\* timestamp.
C18_RunIdsDistinct ==
    /\ dag.process_single_file = "expanded" =>
          /\ Runs = DOMAIN files
          /\ \A r \in Runs :
                Initialized(r) => xcom[r].input_csv_uri = files[r].input_csv_uri
    /\ \A r, q \in Runs :
          (r # q /\ Initialized(r) /\ Initialized(q)) => xcom[r].run_id # xcom[q].run_id

\* a step of run r: its initialize_state or an attempt of one of its stages
C19_RunStep(r) ==
    \/ initialize_state(r)
    \/ transform_seed(r)
    \/ prepare_county_via_lambda(r)
    \/ transform_county(r)
    \/ hash_files(r)
    \/ upload_hashed_results(r)
    \/ prepare_submission(r)
    \/ submit_to_blockchain(r)

\* everything the model holds of run r
C19_RunState(r) ==
    <<ti[r], tries[r], xcom[r], local[r], exc[r], lastdoc[r], written[r]>>

C20_Contains(s, part) ==
    \E i \in 0..(Len(s) - Len(part)) : SubSeq(s, i + 1, i + Len(part)) = part

\* C20: two different runs never write the same object-store key, and every
\* key a run writes contains the id of the run (as it is, or with ":" and "+"
\* replaced) followed by the name of the artifact.
C20_NoSharedKeys ==
    /\ \A r, q \in Runs : r # q => written[r] \cap written[q] = {}
    /\ \A r \in Runs : \A key \in written[r] :
          /\ \/ C20_Contains(key, xcom[r].run_id)
             \/ C20_Contains(key, RunIdClean(xcom[r].run_id))
          /\ key[Len(key)] # "/"

\* the received message the descriptor of run r was parsed from
C21_MessageOf(r) ==
    CHOOSE m \in {messages.value.items[i] : i \in DOMAIN messages.value.items} :
        m.MessageId = files[r].message_id

\* C21: messages are deleted on receipt and the follow-up publish restores
\* them: once a poll cycle in which a run failed has ended, nothing received
\* is left on the queue by the poller, and for every failed run the queue
\* holds a message carrying the event notification of the message that run
\* came from (in whatever encoding it was sent).
C21_FailedMessagesRequeued ==
    (dag.process_single_file = "expanded" /\ DagRunState # "running") =>
        \A r \in Runs :
            RunFailed(r) =>
                \E i \in DOMAIN queue :
                    queue[i].Body.val = C21_MessageOf(r).Body.val

----------------------------------------------------------------------------
(* Properties of the stages *)

\* the result of the try-block of stage t on the state s in the environment e
StageBody(t, s, e) ==
    CASE t = "transform_seed" -> TransformSeedBody(s, e.dl, e.t1, e.t2, e.up)
      [] t = "prepare_county_via_lambda" -> PrepareCountyBody(s, config, e.ssm, e.prep, e.resp)
      [] t = "transform_county" ->
            TransformCountyBody(s, config, e.dl1, e.dl2, e.t1, e.uplog, e.t2, e.up)
      [] t = "hash_files" ->
            HashFilesBody(s, e.dl, e.t1, e.csv, e.zip, e.t2, e.county_csv, e.failed)
      [] t = "upload_hashed_results" -> UploadHashedBody(s, config, e.dl, e.t1, e.t2, e.failed)
      [] t = "prepare_submission" -> PrepareSubmissionBody(s, e.dl, e.csv_files, e.up)
      [] t = "submit_to_blockchain" -> SubmitBody(s, config, e.dl, e.t, e.outfiles, e.up)

\* every environment of an attempt of stage t
AnyEnvs(t) ==
    CASE t = "transform_seed" -> TransformSeedEnvs
      [] t = "prepare_county_via_lambda" -> PrepareCountyEnvs
      [] t = "transform_county" -> TransformCountyEnvs
      [] t = "hash_files" -> HashFilesEnvs
      [] t = "upload_hashed_results" -> UploadHashedEnvs
      [] t = "prepare_submission" -> PrepareSubmissionEnvs
      [] t = "submit_to_blockchain" -> SubmitEnvs

\* a tool invocation that succeeds: it exits with status zero in time and
\* leaves no populated error report
C22_ToolSucceeds(t) == ~t.timedout /\ t.rc = 0 /\ t.errfile # "rows"

\* an attempt of stage t in which every transfer, every tool invocation and
\* the function invocation succeed and leave what they were asked for
C22_AllSucceed(t, e) ==
    CASE t = "transform_seed" ->
            e.dl /\ C22_ToolSucceeds(e.t1) /\ C22_ToolSucceeds(e.t2) /\ e.up
      [] t = "prepare_county_via_lambda" ->
            /\ e.ssm = "value" /\ e.prep = "ok"
            /\ ~e.resp.raises /\ e.resp.status = 200 /\ ~e.resp.function_error
            /\ e.resp.payload # "invalid_json"
      [] t = "transform_county" ->
            /\ e.dl1 /\ e.dl2 /\ e.uplog /\ e.up
            /\ C22_ToolSucceeds(e.t1) /\ e.t1.clilog /\ C22_ToolSucceeds(e.t2)
      [] t = "hash_files" ->
            /\ e.dl /\ e.failed = {}
            /\ C22_ToolSucceeds(e.t1) /\ C22_ToolSucceeds(e.t2)
            /\ (e.csv = "cid" \/ e.zip = "cid_dir") /\ e.county_csv
      [] t = "upload_hashed_results" ->
            e.dl /\ C22_ToolSucceeds(e.t1) /\ C22_ToolSucceeds(e.t2) /\ e.failed = {}
      [] t = "prepare_submission" -> e.dl /\ e.up
      [] t = "submit_to_blockchain" ->
            e.dl /\ C22_ToolSucceeds(e.t) /\ e.outfiles /\ e.up

\* the fields a successful run has populated
C22_Populated ==
    { "seed_output_uri", "county_prepared_input_uri", "county_output_uri",
      "hash_results_uri", "hash_csv_uri", "property_cid", "seed_hash_zip_uri",
      "county_hash_zip_uri", "submission_csv_uri", "submission_result" }

C23_Invocations(t, e) ==
    CASE t = "prepare_county_via_lambda" -> {}
      [] t = "prepare_submission" -> {}
      [] t = "submit_to_blockchain" -> {e.t}
      [] OTHER -> {e.t1, e.t2}

\* C23: in every stage that invokes the external tool, an attempt in which an
\* invocation exits with status zero and leaves an error report with at least
\* one row does not return: the stage fails.
C23_ErrorReportFailsStage ==
    \A r \in Runs : \A t \in StageSet :
        Runnable(r, t) =>
            \A e \in AnyEnvs(t) :
                (\E i \in C23_Invocations(t, e) : i.rc = 0 /\ i.errfile = "rows")
                    => ~StageBody(t, xcom[r], e).ok

\* the objects the parallel block of stage t transfers, in the order they are
\* submitted
C24_Transfers(t) ==
    CASE t = "hash_files" ->
            <<"combined_hash.zip", "combined_hash.csv", "seed_hash.zip", "county_hash.zip">>
      [] t = "upload_hashed_results" -> <<"seed_upload_log.json", "county_upload_log.json">>

C24_Uri(r, t, i) == ArtifactUri(xcom[r], C24_Transfers(t)[i])

\* C24: the parallel transfers of hash_files (4) and upload_hashed_results (2)
\* run with between 2 and 4 workers.  An attempt in which some of them raise
\* waits for all (every transfer that does not raise has written its object),
\* raises the exception of the first of them in submission order, and
\* returns no state: none of the stage's output fields is set.
C24_ParallelTransfers ==
    \A r \in Runs : \A t \in {"hash_files", "upload_hashed_results"} :
        /\ MaxWorkers(t) \in 2..4
        /\ (Runnable(r, t) /\ ~Falsy(config.pinata_jwt)) =>
              \A e \in AnyEnvs(t) :
                  (e.failed # {} /\ (t = "hash_files" => e.county_csv)) =>
                      LET res == StageBody(t, xcom[r], e)
                          first == CHOOSE i \in e.failed : \A j \in e.failed : i <= j
                      IN  /\ ~res.ok
                          /\ res.msg = <<"Failed to upload">> \o C24_Uri(r, t, first)
                          /\ res.writes = {C24_Uri(r, t, i) :
                                              i \in DOMAIN C24_Transfers(t) \ e.failed}
                          /\ res.state = xcom[r]
        /\ \A i \in DOMAIN C24_Transfers(t) :
              (Raised(r, t) /\ local[r].error = <<"Failed to upload">> \o C24_Uri(r, t, i)) =>
                  /\ \A j \in 1..(i - 1) : C24_Uri(r, t, j) \in written[r]
                  /\ \A f \in OwnedFields(t) : local[r][f] = Null

\* hash_files has failed on the upload of the combined manifest, after the
\* combined archive and with the county hash archive written all the same
C24_Witness ==
    \E r \in Runs :
        /\ ti[r]["hash_files"] = "failed"
        /\ local[r].error = <<"Failed to upload">> \o C24_Uri(r, "hash_files", 2)
        /\ C24_Uri(r, "hash_files", 1) \in written[r]
        /\ C24_Uri(r, "hash_files", 3) \notin written[r]
        /\ C24_Uri(r, "hash_files", 4) \in written[r]

\* C25: in an attempt of hash_files whose download and seed hash succeed, the
\* identifier is the propertyCid value of the seed hash manifest when that is
\* non-empty, and otherwise the name of the "bafkrei" directory of the seed
\* hash archive.  When only the directory gives one and the tools and the
\* transfers succeed, the attempt returns with property_cid equal to the
\* directory name; when the manifest gives one and they succeed, it returns
\* with the manifest's value; when neither gives one, the attempt raises.
C25_IdentifierOrder ==
    \A r \in Runs :
        Runnable(r, "hash_files") =>
            \A e \in AnyEnvs("hash_files") :
                (e.dl /\ C22_ToolSucceeds(e.t1)) =>
                    LET res == StageBody("hash_files", xcom[r], e)
                        rest == C22_ToolSucceeds(e.t2) /\ e.failed = {}
                    IN  /\ (e.csv = "cid" /\ rest) =>
                              res.ok /\ res.state.property_cid = CsvCid
                        /\ (e.csv # "cid" /\ e.zip = "cid_dir" /\ rest) =>
                              res.ok /\ res.state.property_cid = DirCid
                        /\ (e.csv # "cid" /\ e.zip # "cid_dir") => ~res.ok

\* the state run r hands to submit_to_blockchain, and that state without its
\* submission_csv_uri (null, or the empty string)
C26_States(r) ==
    {xcom[r], [xcom[r] EXCEPT !.submission_csv_uri = Null],
     [xcom[r] EXCEPT !.submission_csv_uri = <<>>]}

\* C26: an attempt of submit_to_blockchain whose state has no
\* submission_csv_uri, or for which one of the five Variables (domain, API
\* key, oracle key id, from address, RPC URL) is not defined, raises before
\* the tool is invoked: whatever the download, the tool and the upload would
\* do, it raises the same error, writes nothing and sets no
\* submission_result.  A run whose submit stage was attempted with an
\* undefined Variable has that stage raised with the KeyError of a Variable.
C26_SubmitRequiresInputs ==
    \A r \in Runs :
        /\ Runnable(r, "submit_to_blockchain") =>
              \A s \in C26_States(r) :
                  (Falsy(s.submission_csv_uri) \/ \E f \in SubmitVariables : config[f] = Null) =>
                      \A e \in AnyEnvs("submit_to_blockchain") :
                          LET res == StageBody("submit_to_blockchain", s, e)
                          IN  /\ ~res.ok
                              /\ res.writes = {}
                              /\ res.state = s
                              /\ res.msg \in {MsgNoSubmission}
                                    \cup {KeyErrorMsg(f) : f \in {g \in SubmitVariables : config[g] = Null}}
                              /\ \A d \in AnyEnvs("submit_to_blockchain") :
                                    StageBody("submit_to_blockchain", s, d) = res
        /\ (tries[r]["submit_to_blockchain"] > 0 /\ \E f \in SubmitVariables : config[f] = Null) =>
              /\ Raised(r, "submit_to_blockchain")
              /\ \E f \in SubmitVariables : config[f] = Null /\ local[r].error = KeyErrorMsg(f)
              /\ local[r].submission_result = Null

\* submit_to_blockchain has raised for the undefined Variable elephant_rpc_url
C26_Witness ==
    \E r \in Runs :
        /\ config.rpc_url = Null
        /\ Raised(r, "submit_to_blockchain")
        /\ local[r].error = KeyErrorMsg("rpc_url")
        /\ ~Falsy(local[r].submission_csv_uri)

\* the output fields designated to each stage
C27_Designated(t) ==
    CASE t = "transform_seed"            -> {"seed_output_uri"}
      [] t = "prepare_county_via_lambda" -> {"county_prepared_input_uri"}
      [] t = "transform_county"          -> {"county_output_uri"}
      [] t = "hash_files"                -> {"hash_results_uri", "hash_csv_uri", "property_cid",
                                             "seed_hash_zip_uri", "county_hash_zip_uri"}
      [] t = "upload_hashed_results"     -> {}
      [] t = "prepare_submission"        -> {"submission_csv_uri"}
      [] t = "submit_to_blockchain"      -> {"submission_result"}

\* C27: a step in which a stage of a run succeeds leaves every field of the
\* run's WorkflowState other than the stage's designated output fields as it
\* was (the identity fields, the fields of earlier stages, error and
\* error_step), and no step changes a field that already has a value: each
\* field is written at most once in a run.
C27_StageWritesOwnFieldsOnce ==
    [][\A r \in Runs :
          /\ \A t \in StageSet :
                (ti[r][t] # "success" /\ ti'[r][t] = "success") =>
                    /\ \A f \in StateFields \ C27_Designated(t) : xcom'[r][f] = xcom[r][f]
                    /\ local'[r] = xcom'[r]
          /\ \A f \in StateFields : xcom'[r][f] # xcom[r][f] => xcom[r][f] = Null]_vars

\* a run has succeeded although an attempt of one of its stages had raised
\* and set the error fields of the state it held
C27_Witness ==
    \E r \in Runs :
        /\ RunSucceeded(r)
        /\ tries[r]["prepare_county_via_lambda"] = 2
        /\ xcom[r].error = Null
        /\ \A t \in StageSet : \A f \in C27_Designated(t) : ~Falsy(xcom[r][f])

\* the responses that carry an output location: directly, or nested in a
\* body given as text or as an object
C28_CarriesLocation == {"direct", "body_str", "body_obj"}

\* C28: in an attempt of prepare_county_via_lambda that has resolved the
\* function and uploaded its input, a successful response sets
\* county_prepared_input_uri to the location the response carries, directly
\* or nested in its body, and in every other case to
\* <output prefix>/output.zip; a response that is not successful makes the
\* attempt raise and sets no location.
C28_PreparedInputLocation ==
    \A r \in Runs :
        Runnable(r, "prepare_county_via_lambda") =>
            \A e \in AnyEnvs("prepare_county_via_lambda") :
                ( /\ e.prep = "ok"
                  /\ \/ ~Falsy(config.downloader_function_arn)
                     \/ ~Falsy(config.downloader_ssm_param_name) /\ e.ssm = "value" ) =>
                    LET res == StageBody("prepare_county_via_lambda", xcom[r], e)
                        success == /\ ~e.resp.raises
                                   /\ e.resp.status >= 200 /\ e.resp.status < 300
                                   /\ ~e.resp.function_error
                        fallback == Slash(ArtifactUri(xcom[r], "county_prep"), Str("output.zip"))
                    IN  IF success
                        THEN /\ res.ok
                             /\ res.state.county_prepared_input_uri =
                                   IF e.resp.payload \in C28_CarriesLocation
                                   THEN LambdaUri ELSE fallback
                        ELSE /\ ~res.ok
                             /\ res.state.county_prepared_input_uri = Null

\* the state run r hands to prepare_submission, that state without its
\* hash_csv_uri, and without its hash_results_uri as well
C29_States(r) ==
    {xcom[r], [xcom[r] EXCEPT !.hash_csv_uri = Null],
     [xcom[r] EXCEPT !.hash_csv_uri = Null, !.hash_results_uri = Null]}

\* the manifests among the files of an archive: the seed and the county
\* hash manifest
C29_Manifests(csv_files) ==
    SelectSeq(csv_files, LAMBDA f : f.name # <<"notes", ".csv">>)

RECURSIVE C29_Rows(_)
C29_Rows(manifests) ==
    IF manifests = <<>> THEN <<>> ELSE Head(manifests).rows \o C29_Rows(Tail(manifests))

\* C29: in an attempt of prepare_submission whose download succeeds, the
\* submission table is the combined manifest when the state has hash_csv_uri;
\* otherwise the attempt raises when hash_results_uri is missing or the
\* manifests of the combined archive have no rows, and when they have rows
\* and one header the table is their rows, in order, under that header.  An
\* attempt that has its table and whose upload succeeds returns with
\* submission_csv_uri set to the location it wrote the table to.
C29_SubmissionTable ==
    \A r \in Runs :
        Runnable(r, "prepare_submission") =>
            \A s \in C29_States(r) : \A e \in AnyEnvs("prepare_submission") :
                LET t == SubmissionTable(s, e.dl, e.csv_files)
                    res == StageBody("prepare_submission", s, e)
                    manifests == C29_Manifests(e.csv_files)
                    uri == ArtifactUri(s, "submission_ready.csv")
                IN  e.dl =>
                    /\ ~Falsy(s.hash_csv_uri) => ~t.raised /\ t.table = CombinedManifest
                    /\ (Falsy(s.hash_csv_uri) /\ Falsy(s.hash_results_uri)) => ~res.ok
                    /\ (Falsy(s.hash_csv_uri) /\ ~Falsy(s.hash_results_uri)) =>
                          /\ C29_Rows(manifests) = <<>> => ~res.ok
                          /\ ( /\ C29_Rows(manifests) # <<>>
                               /\ \A i \in DOMAIN manifests :
                                     manifests[i].header = manifests[1].header ) =>
                                /\ ~t.raised
                                /\ t.table.header = manifests[1].header
                                /\ t.table.rows = C29_Rows(manifests)
                    /\ IF ~t.raised /\ e.up
                       THEN /\ res.ok
                            /\ res.state = [s EXCEPT !.submission_csv_uri = uri]
                            /\ res.writes = {uri}
                       ELSE ~res.ok /\ res.state = s /\ res.writes = {}

\* prepare_submission has succeeded from a state with hash_csv_uri
C29_Witness ==
    \E r \in Runs :
        /\ ti[r]["prepare_submission"] = "success"
        /\ ~Falsy(xcom[r].hash_csv_uri)
        /\ xcom[r].submission_csv_uri = ArtifactUri(xcom[r], "submission_ready.csv")
        /\ xcom[r].submission_csv_uri \in written[r]

\* the number of attempts each stage may make: one, and one per retry
C30_MaxAttempts(t) ==
    CASE t = "transform_seed"            -> 2
      [] t = "prepare_county_via_lambda" -> 3
      [] t = "transform_county"          -> 2
      [] t = "hash_files"                -> 1
      [] t = "upload_hashed_results"     -> 3
      [] t = "prepare_submission"        -> 3
      [] t = "submit_to_blockchain"      -> 3

\* the stage attempts run r has made
C30_Attempts(r) ==
    tries[r]["transform_seed"] + tries[r]["prepare_county_via_lambda"]
    + tries[r]["transform_county"] + tries[r]["hash_files"]
    + tries[r]["upload_hashed_results"] + tries[r]["prepare_submission"]
    + tries[r]["submit_to_blockchain"]

\* C30: every run terminates.  No stage is attempted more often than one
\* plus its retry count, a run makes at most 17 stage attempts in all, and
\* every run eventually has succeeded or has a failed stage, and stays so.
C30_RunTerminates ==
    /\ [](\A r \in Runs :
            /\ \A t \in StageSet : tries[r][t] <= C30_MaxAttempts(t)
            /\ C30_Attempts(r) <= 17)
    /\ <>[](\A r \in Runs : RunTerminal(r))

\* a run has succeeded with its 17th stage attempt
C30_Witness ==
    \E r \in Runs : RunSucceeded(r) /\ C30_Attempts(r) = 17

\* the last attempt of submit_to_blockchain in run r raised after run_command
\* had returned: the tool had exited with status 0, and then one of its output
\* files could not be opened, or the upload of the log failed
C31_ExitedZero(r) ==
    /\ ti[r]["submit_to_blockchain"] = "up_for_retry"
    /\ local[r].error \in {MsgNoFile, MsgUpload}

\* this step is an attempt of submit_to_blockchain in run r that reaches
\* run_command: it returns, or it raises something else than a KeyError of a
\* Variable, the missing submission_csv_uri or a failed download
C31_Invoked(r) ==
    /\ tries'[r]["submit_to_blockchain"] = tries[r]["submit_to_blockchain"] + 1
    /\ \/ ti'[r]["submit_to_blockchain"] = "success"
       \/ local'[r].error \notin
              {MsgNoSubmission, MsgDownload} \cup {KeyErrorMsg(f) : f \in SubmitVariables}

C32_InputHasNoError ==
    \A r \in Runs : \A t \in StageSet :
        Runnable(r, t) => xcom[r].error = Null /\ xcom[r].error_step = Null

\* a stage waits for its retry after an attempt that set both error fields in
\* the state it held, and the state the retry receives has neither
C32_Witness ==
    \E r \in Runs : \E t \in StageSet :
        /\ ti[r][t] = "up_for_retry"
        /\ Runnable(r, t)
        /\ local[r].error # Null
        /\ local[r].error_step = Str(ErrorStep(t))
        /\ xcom[r].error = Null
        /\ xcom[r].error_step = Null

\* C33: a follow-up message is published only in a poll cycle that dispatched
\* at least one run, and the placeholder content "{}" is never sent: every
\* published message belongs to a cycle whose task group was expanded over
\* at least one descriptor, and none has the content "{}".
C33_NoPlaceholderPublished ==
    \A i \in DOMAIN published :
        /\ dag.process_single_file = "expanded"
        /\ Runs # {}
        /\ published[i].message_content # EmptyObject

\* C34: whenever prepare_submission can be started in a run, the state it
\* receives has hash_csv_uri, so that the table is the downloaded combined
\* manifest whatever the combined archive holds, and none of the exceptions
\* of the branch that rebuilds the table from the archive is raised.
C34_HashCsvUriPopulated ==
    \A r \in Runs :
        Runnable(r, "prepare_submission") =>
            /\ ~Falsy(xcom[r].hash_csv_uri)
            /\ \A e \in PrepareSubmissionEnvs :
                  LET table == SubmissionTable(xcom[r], e.dl, e.csv_files)
                  IN  /\ table.msg \notin {MsgNoHashResults, MsgNoHashCsvs, MsgExtraFields}
                      /\ table.raised <=> ~e.dl
                      /\ table.table = CombinedManifest

\* prepare_submission is about to start after a hash_files that uploaded the
\* combined manifest and stored its location
C34_Witness ==
    \E r \in Runs :
        /\ Runnable(r, "prepare_submission")
        /\ ti[r]["hash_files"] = "success"
        /\ xcom[r].hash_csv_uri = ArtifactUri(xcom[r], "combined_hash.csv")
        /\ xcom[r].hash_csv_uri \in written[r]

\* the fields hash_files writes
C35_HashFields ==
    {"hash_results_uri", "hash_csv_uri", "property_cid", "seed_hash_zip_uri",
     "county_hash_zip_uri"}

\* the five fields of the state s are all None, or all populated
C35_AllOrNone(s) ==
    \/ \A f \in C35_HashFields : s[f] = Null
    \/ \A f \in C35_HashFields : ~Falsy(s[f])

\* C35: in every WorkflowState, the one a task returned as well as the one a
\* failed attempt held when it ended, the five fields written by hash_files
\* are all None or all populated, and a hash_files attempt that failed left
\* all five None.
C35_HashFieldsTogether ==
    \A r \in Runs :
        /\ C35_AllOrNone(xcom[r])
        /\ C35_AllOrNone(local[r])
        /\ ti[r]["hash_files"] = "success" =>
              \A f \in C35_HashFields : ~Falsy(xcom[r][f])
        /\ ti[r]["hash_files"] # "success" =>
              \A f \in C35_HashFields : xcom[r][f] = Null /\ local[r][f] = Null

\* hash_files has failed in one of its four uploads after another of them had
\* written its artifact, and the state it held has none of the five fields
C35_Witness ==
    \E r \in Runs :
        /\ ti[r]["hash_files"] = "failed"
        /\ \E name \in {"combined_hash.zip", "combined_hash.csv", "seed_hash.zip",
                         "county_hash.zip"} :
              local[r].error = UploadError(ArtifactUri(xcom[r], name))
        /\ ArtifactUri(xcom[r], "combined_hash.zip") \in written[r]
        /\ \A f \in C35_HashFields : local[r][f] = Null

====
